---- MODULE Spec2Model ----
(***************************************************************************)
(* A model of the policy-to-graph engine of the Tailscale network topology *)
(* mapper: NetworkGraph (network_graph.py), the validation run by          *)
(* PolicyParser.parse_policy (policy_parser.py), the validation of         *)
(* PolicyValidator (services/policy_validator.py) and the pipeline of main *)
(* (main.py).                                                              *)
(*                                                                         *)
(* Strings.  A Python str is a sequence of symbols, each symbol a TLA+     *)
(* string.  Identifiers and ip specs, whose prefixes, separators and       *)
(* digits the code inspects, are written one character per symbol; a text  *)
(* the code only concatenates (a tooltip caption, a color) is one symbol.  *)
(* startswith, endswith, in, split and join are computed on the sequence.  *)
(*                                                                         *)
(* JSON values.  A value whose Python type the code tests or iterates is   *)
(* a record [t, v]: t is "list", "str" or "dict" and v a sequence of       *)
(* strings (the elements, the one string, the keys).                       *)
(***************************************************************************)
EXTENDS Integers, Sequences, FiniteSets, Bags, TLC

VARIABLES
    hosts,              \* NetworkGraph.hosts: host name -> address
    groups,             \* NetworkGraph.groups: group name -> members
    rule_line_numbers,  \* NetworkGraph.rule_line_numbers
    nodes,              \* NetworkGraph.nodes: set of <<id, color, tooltip, shape>>
    edges,              \* NetworkGraph.edges, as a bag of <<src, dst>>
    node_metadata,      \* NetworkGraph.node_metadata: id -> record
    edge_metadata,      \* NetworkGraph.edge_metadata: <<src, dst>> -> record
    pc,                 \* position of the running call
    acls,               \* build_graph argument
    grants,             \* build_graph argument
    idx,                \* loop index i of the batch in progress (0-based)
    all_nodes,          \* build_graph local: id -> <<color, tooltip, shape>>
    all_edges,          \* build_graph local: set of <<src, dst>>
    acl_nodes,          \* build_graph local
    grant_nodes,        \* build_graph local
    builds,             \* number of completed build_graph calls on the instance
    policy_data,        \* main: the decoded policy document
    error,              \* main: the ValueError parse_policy raised, or NoError
    rendered,           \* main: render_to_html was called
    fn_in,              \* argument of the pure function under test
    fn_out              \* its result, or NotCalled

vars == <<hosts, groups, rule_line_numbers, nodes, edges, node_metadata,
          edge_metadata, pc, acls, grants, idx, all_nodes, all_edges,
          acl_nodes, grant_nodes, builds, policy_data, error, rendered,
          fn_in, fn_out>>

----------------------------------------------------------------------------
(* Python str operations on sequences of symbols *)

StartsWith(s, p) ==
    Len(s) >= Len(p) /\ SubSeq(s, 1, Len(p)) = p

EndsWith(s, p) ==
    Len(s) >= Len(p) /\ SubSeq(s, Len(s) - Len(p) + 1, Len(s)) = p

\* the positions at which p occurs in s
Occurrences(s, p) ==
    {k \in 1..(Len(s) - Len(p) + 1) : SubSeq(s, k, k + Len(p) - 1) = p}

\* p in s
Contains(s, p) ==
    Occurrences(s, p) # {}

\* s.find(p), 1-based; 0 when p does not occur
Find(s, p) ==
    IF Contains(s, p)
    THEN CHOOSE k \in Occurrences(s, p) : \A j \in Occurrences(s, p) : k <= j
    ELSE 0

\* s.split(sep)[0]
SplitHead(s, sep) ==
    IF Contains(s, sep) THEN SubSeq(s, 1, Find(s, sep) - 1) ELSE s

\* s.split(sep, 1)[1], for s that contains sep
SplitTail(s, sep) ==
    SubSeq(s, Find(s, sep) + Len(sep), Len(s))

RECURSIVE Join(_, _)
\* sep.join(parts)
Join(sep, parts) ==
    IF parts = <<>> THEN <<>>
    ELSE IF Len(parts) = 1 THEN parts[1]
    ELSE parts[1] \o sep \o Join(sep, Tail(parts))

\* the elements of a sequence, as a set
Range(seq) ==
    {seq[k] : k \in DOMAIN seq}

----------------------------------------------------------------------------
(* JSON values *)

JList(seq) == [t |-> "list", v |-> seq]
JStr(s) == [t |-> "str", v |-> <<s>>]
JDict(keys) == [t |-> "dict", v |-> keys]

\* what `for x in value` yields: the elements of a list, the keys of a dict,
\* the characters of a str
Iter(x) ==
    IF x.t = "str" THEN [k \in 1..Len(x.v[1]) |-> <<x.v[1][k]>>] ELSE x.v

\* value == ["*"]
IsWildcardList(x) ==
    x.t = "list" /\ x.v = << <<"*">> >>

\* rule.get(key, []) for a key holding a list
GetList(rule, key) ==
    IF key \in DOMAIN rule THEN Iter(rule[key]) ELSE <<>>

----------------------------------------------------------------------------
(* config.py *)

COMPANY_DOMAIN == <<"e","x","a","m","p","l","e",".","c","o","m">>

NODE_COLORS == [tag |-> "#00cc66", group |-> "#FFFF00", host |-> "#ff6666"]

VALID_PROTOCOLS ==
    { <<"t","c","p">>, <<"u","d","p">>, <<"i","c","m","p">>, <<"a","h">>,
      <<"e","s","p">>, <<"g","r","e">>,
      <<"i","p","v","6","-","i","c","m","p">>, <<"o","s","p","f">>,
      <<"s","c","t","p">> }

MIN_PORT == 1

MAX_PORT == 65535

----------------------------------------------------------------------------
(* NetworkGraph: pure helpers *)

\* a mutant of resolve_nodes: a group is replaced by its members
resolve_nodes_members(node_list) ==
    UNION {IF n \in DOMAIN groups THEN Range(groups[n]) ELSE {n} :
           n \in Range(node_list)}

\* _resolve_nodes
resolve_nodes(node_list) ==
    Range(node_list)

\* a mutant of get_node_color: the company domain must be a suffix
get_node_color_suffix(node) ==
    IF StartsWith(node, <<"t","a","g",":">>) THEN NODE_COLORS.tag
    ELSE IF \/ EndsWith(node, COMPANY_DOMAIN)
            \/ StartsWith(node, <<"a","u","t","o","g","r","o","u","p",":">>)
            \/ StartsWith(node, <<"g","r","o","u","p",":">>)
         THEN NODE_COLORS.group
    ELSE NODE_COLORS.host

\* _get_node_color
get_node_color(node) ==
    IF StartsWith(node, <<"t","a","g",":">>) THEN NODE_COLORS.tag
    ELSE IF \/ Contains(node, COMPANY_DOMAIN)
            \/ StartsWith(node, <<"a","u","t","o","g","r","o","u","p",":">>)
            \/ StartsWith(node, <<"g","r","o","u","p",":">>)
         THEN NODE_COLORS.group
    ELSE NODE_COLORS.host

\* current_proto = None
None == <<"<None>">>

\* Python truth of `current_proto and ports`
Truthy(current_proto, ports) ==
    current_proto # None /\ current_proto # <<>> /\ ports # <<>>

\* f"{current_proto}:{','.join(ports)}"
ProtoToken(current_proto, ports) ==
    current_proto \o <<":">> \o Join(<<",">>, ports)

RECURSIVE ScanIp(_, _, _, _)
\* the loop `for spec in grant["ip"]` of _resolve_grant_destinations and the
\* flush after it: the list ip_specs
ScanIp(specs, current_proto, ports, ip_specs) ==
    IF specs = <<>>
    THEN IF Truthy(current_proto, ports)
         THEN Append(ip_specs, ProtoToken(current_proto, ports))
         ELSE ip_specs
    ELSE LET spec == Head(specs) IN
         IF Contains(spec, <<":">>)
         THEN LET proto == SplitHead(spec, <<":">>)
                  port == SplitTail(spec, <<":">>)
              IN IF proto # current_proto
                 THEN IF Truthy(current_proto, ports)
                      THEN ScanIp(Tail(specs), proto, <<port>>,
                                  Append(ip_specs,
                                         ProtoToken(current_proto, ports)))
                      ELSE ScanIp(Tail(specs), proto, Append(ports, port),
                                  ip_specs)
                 ELSE ScanIp(Tail(specs), current_proto, Append(ports, port),
                             ip_specs)
         ELSE ScanIp(Tail(specs), None, <<>>,
                     Append(IF Truthy(current_proto, ports)
                            THEN Append(ip_specs,
                                        ProtoToken(current_proto, ports))
                            ELSE ip_specs,
                            spec))

RECURSIVE GroupByProtocol(_)
\* the specs of an ip list, those of one protocol moved next to its first
GroupByProtocol(ip) ==
    IF ip = <<>> THEN <<>>
    ELSE LET h == Head(ip)
             same(x) == /\ Contains(h, <<":">>) /\ Contains(x, <<":">>)
                        /\ SplitHead(x, <<":">>) = SplitHead(h, <<":">>)
             other(x) == ~same(x)
         IN <<h>> \o SelectSeq(Tail(ip), same)
                 \o GroupByProtocol(SelectSeq(Tail(ip), other))

\* a mutant of IpSpecs: the ports of a protocol are merged across the list
IpSpecsGrouped(ip) ==
    ScanIp(GroupByProtocol(ip), None, <<>>, <<>>)

\* the tokens of the label of an ip list
IpSpecs(ip) ==
    ScanIp(ip, None, <<>>, <<>>)

\* f"{dst} [{', '.join(ip_specs)}]"
EnhancedNode(dst, ip) ==
    dst \o <<" ","[">> \o Join(<<",", " ">>, IpSpecs(ip)) \o <<"]">>

\* a mutant of resolve_grant_destinations: ["*"] is enhanced like any ip
resolve_grant_destinations_any_ip(grant) ==
    IF "ip" \in DOMAIN grant
    THEN {EnhancedNode(dst, Iter(grant.ip)) : dst \in resolve_nodes(Iter(grant.dst))}
    ELSE resolve_nodes(Iter(grant.dst))

\* _resolve_grant_destinations
resolve_grant_destinations(grant) ==
    IF "ip" \in DOMAIN grant /\ ~IsWildcardList(grant.ip)
    THEN {EnhancedNode(dst, Iter(grant.ip)) : dst \in resolve_nodes(Iter(grant.dst))}
    ELSE resolve_nodes(Iter(grant.dst))

----------------------------------------------------------------------------
(* NetworkGraph: tooltips.  The emoji that opens a caption in the source is *)
(* left out of the caption's symbol.                                        *)

\* a dict with no key
EmptyDict == [k \in {} |-> <<>>]

RECURSIVE Decimal(_)
\* str(n) for n >= 0
Decimal(n) ==
    IF n < 10
    THEN <<<<"0","1","2","3","4","5","6","7","8","9">>[n + 1]>>
    ELSE Decimal(n \div 10) \o Decimal(n % 10)

\* _get_node_tooltip
get_node_tooltip(node) ==
    IF SplitHead(node, <<":">>) \in DOMAIN hosts
    THEN hosts[SplitHead(node, <<":">>)]
    ELSE IF node \in DOMAIN groups
    THEN <<"Group Members: ">> \o Join(<<",", " ">>, groups[node])
    ELSE node

\* list(set(values)): the values without duplicates, in the order `order`
\* lists them (the iteration order of a Python set is not specified)
ListOfSet(values, order) ==
    IF Cardinality(Range(values)) >= 2
    THEN SelectSeq(order, LAMBDA x : x \in Range(values))
    ELSE IF values = <<>> THEN <<>> ELSE <<values[1]>>

\* the "Group Members" line of _get_comprehensive_tooltip
MembersLine(members) ==
    IF Len(members) <= 5
    THEN <<"Group Members: ">> \o Join(<<",", " ">>, members)
    ELSE <<"Group Members: ">> \o Join(<<",", " ">>, SubSeq(members, 1, 3))
         \o <<", ... (+">> \o Decimal(Len(members) - 3) \o <<" more)">>

\* the rule type line of _get_comprehensive_tooltip
RuleTypeLines(rule_type) ==
    IF rule_type = "ACL" THEN << <<"Legacy ACL Rules">> >>
    ELSE IF rule_type = "Grant" THEN << <<"Modern Grant Rules">> >>
    ELSE IF rule_type = "Mixed" THEN << <<"Mixed (ACL + Grant Rules)">> >>
    ELSE <<>>

\* the "Rule References" block of _get_comprehensive_tooltip
RuleReferenceLines(src_rules, dst_rules) ==
    IF src_rules # <<>> \/ dst_rules # <<>>
    THEN << <<"Rule References:">> >>
         \o (IF src_rules # <<>>
             THEN << <<"  - Source: ">> \o Join(<<",", " ">>, src_rules) >>
             ELSE <<>>)
         \o (IF dst_rules # <<>>
             THEN << <<"  - Destination: ">> \o Join(<<",", " ">>, dst_rules) >>
             ELSE <<>>)
    ELSE <<>>

\* one accumulator line of _get_comprehensive_tooltip
AccumulatorLines(caption, values, order) ==
    IF values # <<>>
    THEN << <<caption>> \o Join(<<",", " ">>, ListOfSet(values, order)) >>
    ELSE <<>>

\* the lines _get_comprehensive_tooltip takes from a metadata record
MetadataLines(metadata, order) ==
    RuleTypeLines(metadata.rule_type)
    \o RuleReferenceLines(metadata.src_rules, metadata.dst_rules)
    \o (IF /\ metadata.protocols # <<>>
           /\ ListOfSet(metadata.protocols, order.protocols) # << <<"*">> >>
        THEN AccumulatorLines("Protocols: ", metadata.protocols, order.protocols)
        ELSE <<>>)
    \o AccumulatorLines("Via Routes: ", metadata.via, order.via)
    \o AccumulatorLines("Posture Checks: ", metadata.posture, order.posture)
    \o AccumulatorLines("Applications: ", metadata.apps, order.apps)
    \o (IF metadata.members # <<>> THEN <<MembersLine(metadata.members)>>
        ELSE <<>>)

\* _get_comprehensive_tooltip, reading the metadata map md
get_comprehensive_tooltip(node, md, order) ==
    Join(<<"\n">>,
         <<node>>
         \o (IF get_node_tooltip(node) # node /\ node \notin DOMAIN groups
             THEN << <<"i  ">> \o get_node_tooltip(node) >>
             ELSE <<>>)
         \o (IF node \in DOMAIN md THEN MetadataLines(md[node], order)
             ELSE IF node \in DOMAIN groups
             THEN <<MembersLine(groups[node])>>
             ELSE <<>>))

\* a mutant of BaseNode: the bracketed suffix is not stripped
BaseNodeUnstripped(dst) ==
    dst

\* the base id of a grant destination: dst.split(" [")[0] if " [" in dst and
\* dst.endswith("]") else dst
BaseNode(dst) ==
    IF Contains(dst, <<" ","[">>) /\ EndsWith(dst, <<"]">>)
    THEN SplitHead(dst, <<" ","[">>)
    ELSE dst

\* ", ".join(grant[key]) appended under a caption when the key is present
GrantInfo(grant, key, caption) ==
    IF key \in DOMAIN grant
    THEN <<caption>> \o Join(<<",", " ">>, Iter(grant[key]))
    ELSE <<>>

\* _get_grant_src_tooltip
get_grant_src_tooltip(node, grant, md, order) ==
    IF node \in DOMAIN md THEN get_comprehensive_tooltip(node, md, order)
    ELSE get_node_tooltip(node) \o GrantInfo(grant, "srcPosture", "\nPosture: ")

\* the "App" line of _get_grant_dst_tooltip: the keys of a dict, the elements
\* of a list, str() of anything else
AppInfo(grant) ==
    IF "app" \in DOMAIN grant
    THEN <<"\nApp: ">>
         \o (IF grant.app.t = "str" THEN grant.app.v[1]
             ELSE Join(<<",", " ">>, grant.app.v))
    ELSE <<>>

\* _get_grant_dst_tooltip
get_grant_dst_tooltip(node, grant, md, order) ==
    IF BaseNode(node) \in DOMAIN md
    THEN get_comprehensive_tooltip(BaseNode(node), md, order)
    ELSE get_node_tooltip(BaseNode(node))
         \o (IF "ip" \in DOMAIN grant /\ ~IsWildcardList(grant.ip)
             THEN GrantInfo(grant, "ip", "\nProtocols: ") ELSE <<>>)
         \o GrantInfo(grant, "via", "\nVia: ")
         \o AppInfo(grant)
         \o GrantInfo(grant, "dstPosture", "\nPosture: ")

----------------------------------------------------------------------------
(* NetworkGraph: metadata *)

\* _get_node_members
get_node_members(node) ==
    IF node \in DOMAIN groups THEN groups[node] ELSE <<>>

\* the metadata record a node gets when a rule of dialect rule_type is the
\* first to reference it
NewMetadata(node, rule_type) ==
    [node_id |-> node, rule_type |-> rule_type, src_rules |-> <<>>,
     dst_rules |-> <<>>, protocols |-> <<>>, via |-> <<>>, posture |-> <<>>,
     apps |-> <<>>, members |-> get_node_members(node)]

\* line_info of rule i (0-based) of rule_line_numbers[key]
LineInfo(key, i) ==
    IF /\ DOMAIN rule_line_numbers # {}
       /\ key \in DOMAIN rule_line_numbers
       /\ i < Len(rule_line_numbers[key])
    THEN <<" (Ln ">> \o Decimal(rule_line_numbers[key][i + 1]) \o <<")">>
    ELSE <<>>

\* a mutant of AclRef: the reference never carries the line
AclRefNoLine(i) ==
    <<"ACL rule ">> \o Decimal(i + 1)

\* f"ACL rule {i+1}{line_info}"
AclRef(i) ==
    <<"ACL rule ">> \o Decimal(i + 1) \o LineInfo("acls", i)

\* f"Grant rule {i+1}{line_info}"
GrantRef(i) ==
    <<"Grant rule ">> \o Decimal(i + 1) \o LineInfo("grants", i)

\* a mutant of AclMetadata: the reference is recorded only for a node that
\* has no record yet
AclMetadataFirstOnly(md, touched, role, ref) ==
    [n \in DOMAIN md \cup touched |->
        IF n \in DOMAIN md THEN md[n]
        ELSE [NewMetadata(n, "ACL") EXCEPT ![role] = Append(@, ref)]]

\* the metadata loop of _process_acls_batch over the nodes `touched`: each
\* gets a record if it has none, and ref appended to its list `role`
AclMetadata(md, touched, role, ref) ==
    [n \in DOMAIN md \cup touched |->
        LET m == IF n \in DOMAIN md THEN md[n] ELSE NewMetadata(n, "ACL")
        IN IF n \in touched
           THEN [m EXCEPT ![role] = Append(@, ref)]
           ELSE m]

\* a mutant of GrantApps: a str app is taken as it is, a sequence of
\* characters
GrantAppsUnwrapped(grant) ==
    IF "app" \in DOMAIN grant THEN Iter(grant.app) ELSE <<>>

\* the apps list of a grant: the keys of a dict, the list itself, [app] for
\* a str, [] without the field
GrantApps(grant) ==
    IF "app" \in DOMAIN grant
    THEN IF grant.app.t = "str" THEN <<grant.app.v[1]>> ELSE grant.app.v
    ELSE <<>>

\* a mutant of GrantMetadata: the posture accumulator takes srcPosture and
\* dstPosture whatever the role
GrantMetadataBothPostures(md, touched, role, ref, grant, posture_key) ==
    [n \in DOMAIN md \cup touched |->
        LET m == IF n \in DOMAIN md
                 THEN IF n \in touched /\ md[n].rule_type = "ACL"
                      THEN [md[n] EXCEPT !.rule_type = "Mixed"]
                      ELSE md[n]
                 ELSE NewMetadata(n, "Grant")
        IN IF n \in touched
           THEN [m EXCEPT ![role] = Append(@, ref),
                          !.protocols = @ \o GetList(grant, "ip"),
                          !.via = @ \o GetList(grant, "via"),
                          !.posture = @ \o GetList(grant, "srcPosture")
                                        \o GetList(grant, "dstPosture"),
                          !.apps = @ \o GrantApps(grant)]
           ELSE m]

\* the metadata loop of _process_grants_batch over the base ids `touched`
GrantMetadata(md, touched, role, ref, grant, posture_key) ==
    [n \in DOMAIN md \cup touched |->
        LET m == IF n \in DOMAIN md
                 THEN IF n \in touched /\ md[n].rule_type = "ACL"
                      THEN [md[n] EXCEPT !.rule_type = "Mixed"]
                      ELSE md[n]
                 ELSE NewMetadata(n, "Grant")
        IN IF n \in touched
           THEN [m EXCEPT ![role] = Append(@, ref),
                          !.protocols = @ \o GetList(grant, "ip"),
                          !.via = @ \o GetList(grant, "via"),
                          !.posture = @ \o GetList(grant, posture_key),
                          !.apps = @ \o GrantApps(grant)]
           ELSE m]

\* rule.get(key, []) as the stored object
GetRaw(rule, key) ==
    IF key \in DOMAIN rule THEN rule[key] ELSE JList(<<>>)

\* the edge metadata record an ACL rule writes
AclEdgeMetadata(src, dst, i, rule) ==
    [src |-> src, dst |-> dst, rule_type |-> "ACL", rule_index |-> i + 1,
     action |-> IF "action" \in DOMAIN rule THEN rule.action
                ELSE <<"a","c","c","e","p","t">>,
     protocols |-> JList(<<>>), via |-> JList(<<>>), posture |-> JList(<<>>),
     apps |-> JList(<<>>)]

\* a mutant of GrantEdgeMetadata: the record of a grant holds an action
GrantEdgeMetadataWithAction(src, dst, i, grant) ==
    [src |-> src, dst |-> dst, rule_type |-> "Grant", rule_index |-> i + 1,
     action |-> <<"a","c","c","e","p","t">>,
     protocols |-> GetRaw(grant, "ip"), via |-> GetRaw(grant, "via"),
     posture |-> JList(GetList(grant, "srcPosture")
                       \o GetList(grant, "dstPosture")),
     apps |-> JList(GrantApps(grant))]

\* the edge metadata record a grant rule writes
GrantEdgeMetadata(src, dst, i, grant) ==
    [src |-> src, dst |-> dst, rule_type |-> "Grant", rule_index |-> i + 1,
     protocols |-> GetRaw(grant, "ip"), via |-> GetRaw(grant, "via"),
     posture |-> JList(GetList(grant, "srcPosture")
                       \o GetList(grant, "dstPosture")),
     apps |-> JList(GrantApps(grant))]

\* f"{edge[0]}->{edge[1]}"
EdgeKey(edge) ==
    edge[1] \o <<"-", ">">> \o edge[2]

\* get_search_metadata, reading the edge metadata map em.  The dict
\* comprehension keeps one record per key; the ids of the model hold no
\* "->", so two pairs never share a key.
get_search_metadata(md, em) ==
    [nodes |-> md,
     edges |-> [key \in {EdgeKey(e) : e \in DOMAIN em} |->
                   em[CHOOSE e \in DOMAIN em : EdgeKey(e) = key]]]

\* the permutations of a finite set
Perms(S) ==
    {p \in [1..Cardinality(S) -> S] : \A a, b \in DOMAIN p : p[a] = p[b] => a = b}

\* the values of the accumulators f of md that hold two or more distinct
\* values: the sets whose iteration order shows in a tooltip
Ordered(md, f) ==
    UNION {IF Cardinality(Range(md[n][f])) >= 2 THEN Range(md[n][f]) ELSE {} :
           n \in DOMAIN md}

\* the orders in which the sets of one evaluation of list(set(..)) may come
\* out, one order for each accumulator
Orders(md) ==
    [protocols : Perms(Ordered(md, "protocols")), via : Perms(Ordered(md, "via")),
     posture : Perms(Ordered(md, "posture")), apps : Perms(Ordered(md, "apps"))]

----------------------------------------------------------------------------
(* NetworkGraph: operations.  build_graph runs as a sequence of steps, one *)
(* for each rule of each batch and one for each later statement.           *)

\* pc while no call runs on the instance
Idle == "idle"

\* add_node
add_node(node, color, tooltip_text, shape) ==
    /\ pc = Idle
    /\ nodes' = nodes \cup {<<node, color, tooltip_text, shape>>}
    /\ UNCHANGED <<hosts, groups, rule_line_numbers, edges, node_metadata,
                   edge_metadata, pc, acls, grants, idx, all_nodes, all_edges,
                   acl_nodes, grant_nodes, builds, policy_data, error,
                   rendered, fn_in, fn_out>>

\* add_edge
add_edge(src, dst) ==
    /\ pc = Idle
    /\ edges' = edges (+) SetToBag({<<src, dst>>})
    /\ UNCHANGED <<hosts, groups, rule_line_numbers, nodes, node_metadata,
                   edge_metadata, pc, acls, grants, idx, all_nodes, all_edges,
                   acl_nodes, grant_nodes, builds, policy_data, error,
                   rendered, fn_in, fn_out>>

\* build_graph, lines 60-71: the call and its empty batch collections
build_graph(acl_rules, grant_rules) ==
    /\ pc = Idle
    /\ pc' = "acls"
    /\ acls' = acl_rules
    /\ grants' = grant_rules
    /\ idx' = 0
    /\ all_nodes' = EmptyDict
    /\ all_edges' = {}
    /\ acl_nodes' = {}
    /\ grant_nodes' = {}
    /\ UNCHANGED <<hosts, groups, rule_line_numbers, nodes, edges,
                   node_metadata, edge_metadata, builds, policy_data, error,
                   rendered, fn_in, fn_out>>

\* a mutant of process_acls_batch_rule: only the source nodes of the rule
\* are tracked in acl_nodes
process_acls_batch_rule_src_tracked ==
    /\ pc = "acls"
    /\ idx < Len(acls)
    /\ LET rule == acls[idx + 1]
           src_nodes == resolve_nodes(Iter(rule.src))
           dst_nodes == resolve_nodes(Iter(rule.dst))
       IN /\ acl_nodes' = acl_nodes \cup src_nodes
          /\ all_nodes' =
                [n \in DOMAIN all_nodes \cup src_nodes \cup dst_nodes |->
                    IF n \in DOMAIN all_nodes THEN all_nodes[n]
                    ELSE <<get_node_color(n), get_node_tooltip(n), "dot">>]
          /\ node_metadata' =
                AclMetadata(AclMetadata(node_metadata, src_nodes, "src_rules",
                                        AclRef(idx)),
                            dst_nodes, "dst_rules", AclRef(idx))
          /\ edge_metadata' =
                [e \in DOMAIN edge_metadata \cup (src_nodes \X dst_nodes) |->
                    IF e \in src_nodes \X dst_nodes
                    THEN AclEdgeMetadata(e[1], e[2], idx, rule)
                    ELSE edge_metadata[e]]
          /\ all_edges' = all_edges \cup (src_nodes \X dst_nodes)
    /\ idx' = idx + 1
    /\ UNCHANGED <<hosts, groups, rule_line_numbers, nodes, edges, pc, acls,
                   grants, grant_nodes, builds, policy_data, error, rendered,
                   fn_in, fn_out>>

\* _process_acls_batch: one iteration of `for i, rule in enumerate(acls)`.
\* The set `edges` that the batch returns is only ever united into
\* all_edges (line 76), so the rule adds its pairs to all_edges.
process_acls_batch_rule ==
    /\ pc = "acls"
    /\ idx < Len(acls)
    /\ LET rule == acls[idx + 1]
           src_nodes == resolve_nodes(Iter(rule.src))
           dst_nodes == resolve_nodes(Iter(rule.dst))
       IN /\ acl_nodes' = acl_nodes \cup src_nodes \cup dst_nodes
          /\ all_nodes' =
                [n \in DOMAIN all_nodes \cup src_nodes \cup dst_nodes |->
                    IF n \in DOMAIN all_nodes THEN all_nodes[n]
                    ELSE <<get_node_color(n), get_node_tooltip(n), "dot">>]
          /\ node_metadata' =
                AclMetadata(AclMetadata(node_metadata, src_nodes, "src_rules",
                                        AclRef(idx)),
                            dst_nodes, "dst_rules", AclRef(idx))
          /\ edge_metadata' =
                [e \in DOMAIN edge_metadata \cup (src_nodes \X dst_nodes) |->
                    IF e \in src_nodes \X dst_nodes
                    THEN AclEdgeMetadata(e[1], e[2], idx, rule)
                    ELSE edge_metadata[e]]
          /\ all_edges' = all_edges \cup (src_nodes \X dst_nodes)
    /\ idx' = idx + 1
    /\ UNCHANGED <<hosts, groups, rule_line_numbers, nodes, edges, pc, acls,
                   grants, grant_nodes, builds, policy_data, error, rendered,
                   fn_in, fn_out>>

\* build_graph, lines 76-80: the ACL batch returns, the grant batch starts
process_acls_batch_return ==
    /\ pc = "acls"
    /\ idx = Len(acls)
    /\ pc' = "grants"
    /\ idx' = 0
    /\ UNCHANGED <<hosts, groups, rule_line_numbers, nodes, edges,
                   node_metadata, edge_metadata, acls, grants, all_nodes,
                   all_edges, acl_nodes, grant_nodes, builds, policy_data,
                   error, rendered, fn_in, fn_out>>

\* a mutant of process_grants_batch_rule: the first rule to write the
\* entry of a pair keeps it
process_grants_batch_rule_first_writer ==
    /\ pc = "grants"
    /\ idx < Len(grants)
    /\ LET grant == grants[idx + 1]
           src_nodes == resolve_nodes(Iter(grant.src))
           dst_nodes == resolve_grant_destinations(grant)
           base_dst_nodes == {BaseNode(dst) : dst \in dst_nodes}
           md_src == GrantMetadata(node_metadata, src_nodes, "src_rules",
                                   GrantRef(idx), grant, "srcPosture")
           md_dst == GrantMetadata(md_src, base_dst_nodes, "dst_rules",
                                   GrantRef(idx), grant, "dstPosture")
       IN /\ grant_nodes' = grant_nodes \cup src_nodes \cup base_dst_nodes
          /\ \E order \in Orders(md_src) :
                all_nodes' =
                    [n \in DOMAIN all_nodes \cup src_nodes \cup dst_nodes |->
                        IF n \in DOMAIN all_nodes THEN all_nodes[n]
                        ELSE IF n \in src_nodes
                        THEN <<get_node_color(n),
                               get_grant_src_tooltip(n, grant, node_metadata,
                                                     order),
                               "triangle">>
                        ELSE <<get_node_color(n),
                               get_grant_dst_tooltip(n, grant, md_src, order),
                               "triangle">>]
          /\ node_metadata' = md_dst
          /\ edge_metadata' =
                [e \in DOMAIN edge_metadata \cup (src_nodes \X dst_nodes) |->
                    IF e \in (src_nodes \X dst_nodes) \ DOMAIN edge_metadata
                    THEN GrantEdgeMetadata(e[1], e[2], idx, grant)
                    ELSE edge_metadata[e]]
          /\ all_edges' = all_edges \cup (src_nodes \X dst_nodes)
    /\ idx' = idx + 1
    /\ UNCHANGED <<hosts, groups, rule_line_numbers, nodes, edges, pc, acls,
                   grants, acl_nodes, builds, policy_data, error, rendered,
                   fn_in, fn_out>>

\* _process_grants_batch: one iteration of `for i, grant in enumerate(grants)`
process_grants_batch_rule ==
    /\ pc = "grants"
    /\ idx < Len(grants)
    /\ LET grant == grants[idx + 1]
           src_nodes == resolve_nodes(Iter(grant.src))
           dst_nodes == resolve_grant_destinations(grant)
           base_dst_nodes == {BaseNode(dst) : dst \in dst_nodes}
           md_src == GrantMetadata(node_metadata, src_nodes, "src_rules",
                                   GrantRef(idx), grant, "srcPosture")
           md_dst == GrantMetadata(md_src, base_dst_nodes, "dst_rules",
                                   GrantRef(idx), grant, "dstPosture")
       IN /\ grant_nodes' = grant_nodes \cup src_nodes \cup base_dst_nodes
          /\ \E order \in Orders(md_src) :
                all_nodes' =
                    [n \in DOMAIN all_nodes \cup src_nodes \cup dst_nodes |->
                        IF n \in DOMAIN all_nodes THEN all_nodes[n]
                        ELSE IF n \in src_nodes
                        THEN <<get_node_color(n),
                               get_grant_src_tooltip(n, grant, node_metadata,
                                                     order),
                               "triangle">>
                        ELSE <<get_node_color(n),
                               get_grant_dst_tooltip(n, grant, md_src, order),
                               "triangle">>]
          /\ node_metadata' = md_dst
          /\ edge_metadata' =
                [e \in DOMAIN edge_metadata \cup (src_nodes \X dst_nodes) |->
                    IF e \in src_nodes \X dst_nodes
                    THEN GrantEdgeMetadata(e[1], e[2], idx, grant)
                    ELSE edge_metadata[e]]
          /\ all_edges' = all_edges \cup (src_nodes \X dst_nodes)
    /\ idx' = idx + 1
    /\ UNCHANGED <<hosts, groups, rule_line_numbers, nodes, edges, pc, acls,
                   grants, acl_nodes, builds, policy_data, error, rendered,
                   fn_in, fn_out>>

\* a mutant of MixedShapes: the enhanced versions of a mixed node keep
\* their shape
MixedShapesBaseOnly(nodes_dict, mixed_nodes) ==
    [n \in DOMAIN nodes_dict |->
        IF n \in mixed_nodes
        THEN <<nodes_dict[n][1], nodes_dict[n][2], "hexagon">>
        ELSE nodes_dict[n]]

\* the shape loop of build_graph, lines 88-100, over the dict all_nodes
MixedShapes(nodes_dict, mixed_nodes) ==
    [n \in DOMAIN nodes_dict |->
        IF \/ n \in mixed_nodes
           \/ \E node_id \in mixed_nodes :
                 /\ StartsWith(n, node_id \o <<" ","[">>)
                 /\ EndsWith(n, <<"]">>)
        THEN <<nodes_dict[n][1], nodes_dict[n][2], "hexagon">>
        ELSE nodes_dict[n]]

\* a mutant of mark_mixed_nodes: every node a grant has seen becomes a
\* hexagon
mark_mixed_nodes_grant_seen ==
    /\ pc = "grants"
    /\ idx = Len(grants)
    /\ pc' = "tooltips"
    /\ all_nodes' = MixedShapes(all_nodes, grant_nodes)
    /\ UNCHANGED <<hosts, groups, rule_line_numbers, nodes, edges,
                   node_metadata, edge_metadata, acls, grants, idx, all_edges,
                   acl_nodes, grant_nodes, builds, policy_data, error,
                   rendered, fn_in, fn_out>>

\* build_graph, lines 81-100: the grant batch returns and the nodes of
\* acl_nodes & grant_nodes, with their enhanced versions, become hexagons
mark_mixed_nodes ==
    /\ pc = "grants"
    /\ idx = Len(grants)
    /\ pc' = "tooltips"
    /\ all_nodes' = MixedShapes(all_nodes, acl_nodes \cap grant_nodes)
    /\ UNCHANGED <<hosts, groups, rule_line_numbers, nodes, edges,
                   node_metadata, edge_metadata, acls, grants, idx, all_edges,
                   acl_nodes, grant_nodes, builds, policy_data, error,
                   rendered, fn_in, fn_out>>

\* a mutant of update_comprehensive_tooltips: the tooltips are left as the
\* batches wrote them
update_comprehensive_tooltips_skipped ==
    /\ pc = "tooltips"
    /\ pc' = "add_nodes"
    /\ UNCHANGED <<hosts, groups, rule_line_numbers, nodes, edges,
                   node_metadata, edge_metadata, acls, grants, idx, all_nodes,
                   all_edges, acl_nodes, grant_nodes, builds, policy_data,
                   error, rendered, fn_in, fn_out>>

\* _update_comprehensive_tooltips (build_graph, line 103)
update_comprehensive_tooltips ==
    /\ pc = "tooltips"
    /\ pc' = "add_nodes"
    /\ \E order \in Orders(node_metadata) :
          all_nodes' =
              [n \in DOMAIN all_nodes |->
                  <<all_nodes[n][1],
                    get_comprehensive_tooltip(n, node_metadata, order),
                    all_nodes[n][3]>>]
    /\ UNCHANGED <<hosts, groups, rule_line_numbers, nodes, edges,
                   node_metadata, edge_metadata, acls, grants, idx, all_edges,
                   acl_nodes, grant_nodes, builds, policy_data, error,
                   rendered, fn_in, fn_out>>

\* a mutant of add_all_nodes: every node is published under its base id
add_all_nodes_base_ids ==
    /\ pc = "add_nodes"
    /\ pc' = "add_edges"
    /\ nodes' = nodes \cup {<<BaseNode(n), all_nodes[n][1], all_nodes[n][2],
                              all_nodes[n][3]>> : n \in DOMAIN all_nodes}
    /\ UNCHANGED <<hosts, groups, rule_line_numbers, edges, node_metadata,
                   edge_metadata, acls, grants, idx, all_nodes, all_edges,
                   acl_nodes, grant_nodes, builds, policy_data, error,
                   rendered, fn_in, fn_out>>

\* build_graph, lines 106-107: the batch nodes go to self.nodes
add_all_nodes ==
    /\ pc = "add_nodes"
    /\ pc' = "add_edges"
    /\ nodes' = nodes \cup {<<n, all_nodes[n][1], all_nodes[n][2],
                              all_nodes[n][3]>> : n \in DOMAIN all_nodes}
    /\ UNCHANGED <<hosts, groups, rule_line_numbers, edges, node_metadata,
                   edge_metadata, acls, grants, idx, all_nodes, all_edges,
                   acl_nodes, grant_nodes, builds, policy_data, error,
                   rendered, fn_in, fn_out>>

\* build_graph, line 109: self.edges.extend(list(all_edges)), and the return
extend_edges ==
    /\ pc = "add_edges"
    /\ pc' = Idle
    /\ edges' = edges (+) SetToBag(all_edges)
    /\ builds' = builds + 1
    /\ UNCHANGED <<hosts, groups, rule_line_numbers, nodes, node_metadata,
                   edge_metadata, acls, grants, idx, all_nodes, all_edges,
                   acl_nodes, grant_nodes, policy_data, error, rendered,
                   fn_in, fn_out>>

----------------------------------------------------------------------------
(* Inputs.  No identifier of a rule holds " [" or ends in "]": only         *)
(* _resolve_grant_destinations writes a bracketed suffix.                   *)

MaxAcls == 2
MaxGrants == 2

IdGroup == <<"g","r","o","u","p",":","g">>
IdTag == <<"t","a","g",":","a">>
IdHost == <<"h">>
IdHostPort == <<"h",":","2","2">>
IdUser == <<"u","@">> \o COMPANY_DOMAIN

Tcp443 == <<"t","c","p",":","4","4","3">>
Tcp80 == <<"t","c","p",":","8","0">>
Udp53 == <<"u","d","p",":","5","3">>

\* the hosts and groups tables of the policy
PolicyHosts == [n \in {IdHost} |-> <<"100.64.1.1">>]
PolicyGroups == [n \in {IdGroup} |-> << <<"a@example.com">> >>]

\* the rule_line_numbers arguments: none, and the lines of one ACL rule and
\* of two grant rules
LineNumberArgs ==
    {EmptyDict, [acls |-> <<3>>, grants |-> <<7, 12>>]}

AclRules ==
    { [action |-> <<"a","c","c","e","p","t">>, src |-> JList(<<IdGroup>>),
       dst |-> JList(<<IdHost>>)],
      [src |-> JList(<<IdTag, IdGroup, IdTag>>),
       dst |-> JList(<<IdHostPort>>)] }

GrantRules ==
    { [src |-> JList(<<IdGroup>>), dst |-> JList(<<IdHost>>),
       ip |-> JList(<<Tcp443>>)],
      [src |-> JList(<<IdGroup>>), dst |-> JList(<<IdHost>>),
       ip |-> JList(<< <<"*">> >>)],
      [src |-> JList(<<IdTag, IdGroup>>),
       dst |-> JList(<<IdHost, IdTag, IdUser>>),
       via |-> JList(<< <<"t","a","g",":","r">> >>),
       srcPosture |-> JList(<< <<"posture:src">> >>),
       dstPosture |-> JList(<< <<"posture:dst">> >>),
       app |-> JDict(<< <<"example.com/cap">> >>)],
      [src |-> JList(<<IdGroup>>), dst |-> JList(<<IdHost>>),
       ip |-> JList(<<Tcp443, Udp53>>)] }

\* the lists of at most n elements of S
ListsUpTo(S, n) ==
    UNION {[1..k -> S] : k \in 0..n}

AclLists == ListsUpTo(AclRules, MaxAcls)
GrantLists == ListsUpTo(GrantRules, MaxGrants)

----------------------------------------------------------------------------
(* Specifications *)

NoDocument == EmptyDict
NoError == <<>>
NotCalled == [fn |-> "<not called>"]

\* NetworkGraph.__init__
NetworkGraphInit(hosts_arg, groups_arg, rule_line_numbers_arg) ==
    /\ hosts = hosts_arg
    /\ groups = groups_arg
    /\ rule_line_numbers =
          IF DOMAIN rule_line_numbers_arg = {}
          THEN [acls |-> <<>>, grants |-> <<>>]
          ELSE rule_line_numbers_arg
    /\ nodes = {}
    /\ edges = EmptyBag
    /\ node_metadata = EmptyDict
    /\ edge_metadata = EmptyDict

\* no call of build_graph has started
NoCall ==
    /\ pc = Idle
    /\ acls = <<>>
    /\ grants = <<>>
    /\ idx = 0
    /\ all_nodes = EmptyDict
    /\ all_edges = {}
    /\ acl_nodes = {}
    /\ grant_nodes = {}
    /\ builds = 0

\* a NetworkGraph right after construction
Init ==
    /\ \E lines \in LineNumberArgs :
          NetworkGraphInit(PolicyHosts, PolicyGroups, lines)
    /\ NoCall
    /\ policy_data = NoDocument
    /\ error = NoError
    /\ rendered = FALSE
    /\ fn_in = NotCalled
    /\ fn_out = NotCalled

\* one build_graph call on the fresh instance
Next ==
    \/ \E a \in AclLists, g \in GrantLists : builds = 0 /\ build_graph(a, g)
    \/ process_acls_batch_rule
    \/ process_acls_batch_return
    \/ process_grants_batch_rule
    \/ mark_mixed_nodes
    \/ update_comprehensive_tooltips
    \/ add_all_nodes
    \/ extend_edges

Spec == Init /\ [][Next]_vars

----------------------------------------------------------------------------
(* What a document says, read off the rules without running the build *)

\* the id of a node without its trailing " [..]" suffix
BaseId(id) ==
    IF EndsWith(id, <<"]">>) /\ Contains(id, <<" ","[">>)
    THEN SubSeq(id, 1, Find(id, <<" ","[">>) - 1)
    ELSE id

\* the identifiers the rules of a list name as source or destination
Referenced(rules) ==
    UNION {Range(Iter(rules[k].src)) \cup Range(Iter(rules[k].dst)) :
           k \in DOMAIN rules}

\* the pairs ACL rule k produces
AclPairs(k) ==
    Range(Iter(acls[k].src)) \X Range(Iter(acls[k].dst))

\* the pairs grant rule k produces
GrantPairs(k) ==
    Range(Iter(grants[k].src)) \X resolve_grant_destinations(grants[k])

\* the pairs the rules of the document produce
DocPairs ==
    UNION ({AclPairs(k) : k \in DOMAIN acls}
           \cup {GrantPairs(k) : k \in DOMAIN grants})

\* the first build_graph call on the instance has returned
FirstBuildDone ==
    pc = Idle /\ builds = 1

NodeIds ==
    {n[1] : n \in nodes}

----------------------------------------------------------------------------
(* Claims on the build of a fresh NetworkGraph *)

\* C1: after build_graph on a fresh NetworkGraph, a node whose base id is
\* named by an ACL rule and by a grant rule is a hexagon, a node named only
\* by ACL rules is a dot and a node named only by grant rules is a triangle.
C1_MixedPromotion ==
    FirstBuildDone =>
        \A n \in nodes :
            LET inAcl == BaseId(n[1]) \in Referenced(acls)
                inGrant == BaseId(n[1]) \in Referenced(grants)
            IN /\ (inAcl /\ inGrant) => n[4] = "hexagon"
               /\ (inAcl /\ ~inGrant) => n[4] = "dot"
               /\ (~inAcl /\ inGrant) => n[4] = "triangle"

\* a finished build with a hexagon whose id is enhanced, a dot and a triangle
C1_Witness ==
    /\ FirstBuildDone
    /\ \E h, d, t \in nodes :
          /\ h[4] = "hexagon" /\ BaseId(h[1]) # h[1]
          /\ d[4] = "dot"
          /\ t[4] = "triangle"

\* C5: after build_graph on a fresh NetworkGraph, a pair produced by several
\* rules is in the edge list exactly once, and the reference of every rule
\* that produces (A,B) is in A's src_rules and in B's dst_rules.
C5_EdgeDedup ==
    FirstBuildDone =>
        /\ \A e \in DocPairs : CopiesIn(e, edges) = 1
        /\ \A k \in DOMAIN acls : \A e \in AclPairs(k) :
              /\ AclRef(k - 1) \in Range(node_metadata[e[1]].src_rules)
              /\ AclRef(k - 1) \in Range(node_metadata[e[2]].dst_rules)
        /\ \A k \in DOMAIN grants : \A e \in GrantPairs(k) :
              /\ GrantRef(k - 1) \in Range(node_metadata[e[1]].src_rules)
              /\ GrantRef(k - 1) \in Range(node_metadata[BaseId(e[2])].dst_rules)

\* a finished build in which an ACL rule and a grant rule, and two rules of
\* one dialect, produce the same pair
C5_Witness ==
    /\ FirstBuildDone
    /\ \E a \in DOMAIN acls, g \in DOMAIN grants :
          AclPairs(a) \cap GrantPairs(g) # {}
    /\ \E j, k \in DOMAIN grants : j # k /\ GrantPairs(j) \cap GrantPairs(k) # {}

\* the document has one ACL rule src [S] dst [D] and one grant rule
\* src [S] dst [D] with an ip that is not ["*"]
EndToEndDocument ==
    /\ Len(acls) = 1 /\ Len(grants) = 1
    /\ acls[1].src.t = "list" /\ Len(acls[1].src.v) = 1
    /\ acls[1].dst.t = "list" /\ Len(acls[1].dst.v) = 1
    /\ grants[1].src = acls[1].src
    /\ grants[1].dst = acls[1].dst
    /\ "ip" \in DOMAIN grants[1]
    /\ ~IsWildcardList(grants[1].ip)

\* C9: for one ACL rule src [S] dst [D] and one grant rule src [S] dst [D]
\* with a non-wildcard ip P, the build yields exactly the nodes S, D and
\* "D [label(P)]", all hexagons, and exactly the edges (S,D) and
\* (S,"D [label(P)]").
C9_EndToEnd ==
    (FirstBuildDone /\ EndToEndDocument) =>
        LET S == acls[1].src.v[1]
            D == acls[1].dst.v[1]
            E == D \o <<" ","[">>
                 \o Join(<<",", " ">>, IpSpecs(grants[1].ip.v)) \o <<"]">>
        IN /\ NodeIds = {S, D, E}
           /\ Cardinality(nodes) = 3
           /\ \A n \in nodes : n[4] = "hexagon"
           /\ edges = SetToBag({<<S, D>>, <<S, E>>})
           /\ (grants[1].ip.v = <<Tcp443>> /\ D = IdHost) =>
                 E = <<"h"," ","[","t","c","p",":","4","4","3","]">>

\* the end-to-end scenario of the policy with hosts and groups, built
C9_Witness ==
    /\ FirstBuildDone
    /\ EndToEndDocument
    /\ acls[1].src.v = <<IdGroup>>
    /\ grants[1].ip.v = <<Tcp443>>

----------------------------------------------------------------------------
(* The pure methods of NetworkGraph, called on their own: Init draws the    *)
(* argument, a call records the result.  For a node id the graph is also    *)
(* built from documents that name the id in an ACL rule, in a grant rule or *)
(* in both.                                                                 *)

MaxIpLen == 3

Server == <<"s","e","r","v","e","r">>
Db == <<"d","b">>

\* the specs of the ip lists: with a port, bare, the wildcard, and one with
\* an empty protocol
IpAlphabet ==
    { Tcp443, Tcp80, Udp53, <<"*">>, <<"i","c","m","p">>, <<":","8","0">> }

FnDsts == { JList(<<Server>>), JList(<<Server, Db>>) }

FnGrants ==
    {[src |-> JList(<<IdGroup>>), dst |-> d] : d \in FnDsts}
    \cup {[src |-> JList(<<IdGroup>>), dst |-> d, ip |-> JList(ip)] :
          d \in FnDsts, ip \in ListsUpTo(IpAlphabet, MaxIpLen)}

IdTagDomain == <<"t","a","g",":">> \o COMPANY_DOMAIN
IdAutogroup == <<"a","u","t","o","g","r","o","u","p",":","m">>
IdDomainHost == <<"x",".">> \o COMPANY_DOMAIN \o <<":","2","2">>
IdTagged == <<"t","a","g","g","e","d">>
IdMyGroup == <<"m","y","g","r","o","u","p",":","x">>

ColorIds ==
    { IdTag, IdTagDomain, IdGroup, IdAutogroup, IdUser, IdDomainHost,
      IdHost, IdTagged, IdMyGroup }

FnInputs ==
    {[fn |-> "_get_node_color", node |-> id] : id \in ColorIds}
    \cup {[fn |-> "_resolve_grant_destinations", grant |-> g] : g \in FnGrants}

\* the documents that name a node id
ColorAcls(id) ==
    { <<>>, <<[src |-> JList(<<id>>), dst |-> JList(<<IdHost>>)]>> }

ColorGrants(id) ==
    { <<>>,
      <<[src |-> JList(<<IdTag>>), dst |-> JList(<<id>>)]>>,
      <<[src |-> JList(<<id>>), dst |-> JList(<<IdHost>>),
         ip |-> JList(<<Tcp443>>)]>> }

\* self._get_node_color(node)
call_get_node_color ==
    /\ fn_in.fn = "_get_node_color"
    /\ fn_out = NotCalled
    /\ fn_out' = [fn |-> fn_in.fn, value |-> get_node_color(fn_in.node)]
    /\ UNCHANGED <<hosts, groups, rule_line_numbers, nodes, edges,
                   node_metadata, edge_metadata, pc, acls, grants, idx,
                   all_nodes, all_edges, acl_nodes, grant_nodes, builds,
                   policy_data, error, rendered, fn_in>>

\* self._resolve_grant_destinations(grant)
call_resolve_grant_destinations ==
    /\ fn_in.fn = "_resolve_grant_destinations"
    /\ fn_out = NotCalled
    /\ fn_out' = [fn |-> fn_in.fn,
                  value |-> resolve_grant_destinations(fn_in.grant)]
    /\ UNCHANGED <<hosts, groups, rule_line_numbers, nodes, edges,
                   node_metadata, edge_metadata, pc, acls, grants, idx,
                   all_nodes, all_edges, acl_nodes, grant_nodes, builds,
                   policy_data, error, rendered, fn_in>>

InitFn ==
    /\ NetworkGraphInit(PolicyHosts, PolicyGroups, EmptyDict)
    /\ NoCall
    /\ policy_data = NoDocument
    /\ error = NoError
    /\ rendered = FALSE
    /\ fn_in \in FnInputs
    /\ fn_out = NotCalled

NextFn ==
    \/ call_get_node_color
    \/ call_resolve_grant_destinations
    \/ /\ fn_in.fn = "_get_node_color"
       /\ builds = 0
       /\ \E a \in ColorAcls(fn_in.node), g \in ColorGrants(fn_in.node) :
             build_graph(a, g)
    \/ process_acls_batch_rule
    \/ process_acls_batch_return
    \/ process_grants_batch_rule
    \/ mark_mixed_nodes
    \/ update_comprehensive_tooltips
    \/ add_all_nodes
    \/ extend_edges

SpecFn == InitFn /\ [][NextFn]_vars

----------------------------------------------------------------------------
(* Claims on the pure methods *)

\* the grant the call was made with, for a call of
\* _resolve_grant_destinations that has returned
Resolved ==
    fn_out.fn = "_resolve_grant_destinations"

\* the call was made with an ip field that is not ["*"]
WithIp ==
    /\ Resolved
    /\ "ip" \in DOMAIN fn_in.grant
    /\ fn_in.grant.ip # JList(<< <<"*">> >>)

HasPort(x) ==
    Contains(x, <<":">>)

ProtoOf(x) ==
    SplitHead(x, <<":">>)

RECURSIVE RunTokens(_)
\* the tokens of an ip list by runs: a maximal run of consecutive specs
\* "proto:port" of one protocol is one token "proto:p1,p2,..", a spec
\* without ":" is a token of its own
RunTokens(ip) ==
    IF ip = <<>> THEN <<>>
    ELSE IF ~HasPort(Head(ip)) THEN <<Head(ip)>> \o RunTokens(Tail(ip))
    ELSE LET InRun(k) == HasPort(ip[k]) /\ ProtoOf(ip[k]) = ProtoOf(ip[1])
             n == CHOOSE m \in 1..Len(ip) :
                     /\ \A k \in 1..m : InRun(k)
                     /\ m = Len(ip) \/ ~InRun(m + 1)
         IN <<ProtoOf(ip[1]) \o <<":">>
              \o Join(<<",">>, [k \in 1..n |-> SplitTail(ip[k], <<":">>)])>>
            \o RunTokens(SubSeq(ip, n + 1, Len(ip)))

\* "d [T]" for the ', '-joined tokens
Labelled(d, tokens) ==
    d \o <<" ","[">> \o Join(<<",", " ">>, tokens) \o <<"]">>

\* C2: for a grant whose ip is present and not ["*"], each destination d is
\* mapped to exactly one id "d [T]", T the ', '-joined tokens of the scan by
\* runs; dst ["server"] with ip ["tcp:443","tcp:80","udp:53"] resolves to
\* exactly {"server [tcp:443,80, udp:53]"}.
C2_RunTokens ==
    WithIp =>
        /\ fn_out.value =
              {Labelled(d, RunTokens(fn_in.grant.ip.v)) :
               d \in Range(fn_in.grant.dst.v)}
        /\ (/\ fn_in.grant.dst.v = <<Server>>
            /\ fn_in.grant.ip.v = <<Tcp443, Tcp80, Udp53>>) =>
              fn_out.value =
                 {Server \o <<" ","[","t","c","p",":","4","4","3",",","8","0",
                              ","," ","u","d","p",":","5","3","]">>}

RECURSIVE Split(_, _)
\* s.split(sep)
Split(s, sep) ==
    IF Contains(s, sep)
    THEN <<SplitHead(s, sep)>> \o Split(SplitTail(s, sep), sep)
    ELSE <<s>>

\* the tokens of the label of the id resolved for destination d
TokensOf(id, d) ==
    Split(SubSeq(id, Len(d) + 3, Len(id) - 1), <<",", " ">>)

\* the tokens of the protocol p
TokensFor(tokens, p) ==
    {k \in DOMAIN tokens : HasPort(tokens[k]) /\ ProtoOf(tokens[k]) = p}

\* the ip list has two specs of the protocol p with a spec between them that
\* is bare or of another protocol
Separated(ip, p) ==
    \E i, j, k \in DOMAIN ip :
        /\ i < j /\ j < k
        /\ HasPort(ip[i]) /\ ProtoOf(ip[i]) = p
        /\ HasPort(ip[k]) /\ ProtoOf(ip[k]) = p
        /\ ~HasPort(ip[j]) \/ ProtoOf(ip[j]) # p

TcpUdpTcp ==
    /\ WithIp
    /\ fn_in.grant.dst.v = <<Server>>
    /\ fn_in.grant.ip.v = <<Tcp443, Udp53, Tcp80>>

\* C3, as the code has it: the ip specs are merged by protocol within runs of
\* consecutive specs only.  The ports of one protocol (not the empty one)
\* that a bare spec or a spec of another protocol separates in the list are
\* in different tokens, so a protocol can be in several tokens of the label;
\* for ip ["tcp:443","udp:53","tcp:80"] the label is
\* "tcp:443, udp:53, tcp:80".
C3_RunsOnly ==
    WithIp =>
        /\ \A d \in Range(fn_in.grant.dst.v) :
           \A id \in {x \in fn_out.value : StartsWith(x, d \o <<" ","[">>)} :
           \A x \in Range(fn_in.grant.ip.v) :
              (/\ HasPort(x) /\ ProtoOf(x) # <<>>
               /\ Separated(fn_in.grant.ip.v, ProtoOf(x))) =>
                 Cardinality(TokensFor(TokensOf(id, d), ProtoOf(x))) >= 2
        /\ TcpUdpTcp =>
              fn_out.value =
                 {Server \o <<" ","[","t","c","p",":","4","4","3",","," ",
                              "u","d","p",":","5","3",","," ",
                              "t","c","p",":","8","0","]">>}

\* the call on ["tcp:443","udp:53","tcp:80"] has returned an id with two
\* tokens of tcp
C3_Witness ==
    /\ TcpUdpTcp
    /\ \E id \in fn_out.value :
          Cardinality(TokensFor(TokensOf(id, Server), <<"t","c","p">>)) = 2

\* C3, as stated: the ip specs are grouped by protocol across the whole list,
\* each protocol is in at most one token of the label, and for ip
\* ["tcp:443","udp:53","tcp:80"] the label is "tcp:443,80, udp:53".
C3_GroupedAcrossList ==
    WithIp =>
        /\ \A d \in Range(fn_in.grant.dst.v) :
           \A id \in {x \in fn_out.value : StartsWith(x, d \o <<" ","[">>)} :
           \A x \in Range(fn_in.grant.ip.v) :
              HasPort(x) =>
                 Cardinality(TokensFor(TokensOf(id, d), ProtoOf(x))) <= 1
        /\ TcpUdpTcp =>
              fn_out.value =
                 {Server \o <<" ","[","t","c","p",":","4","4","3",",","8","0",
                              ","," ","u","d","p",":","5","3","]">>}

\* C4: for a grant whose ip is absent or exactly ["*"] the result is exactly
\* the set of the dst identifiers, unchanged (dst ["server"], ip ["*"] gives
\* {"server"}); an id with a bracket suffix is produced only when ip is
\* present and differs from ["*"].
C4_NoIpNoSuffix ==
    Resolved =>
        /\ ("ip" \notin DOMAIN fn_in.grant \/ ~WithIp) =>
              fn_out.value = Range(fn_in.grant.dst.v)
        /\ (\E id \in fn_out.value : EndsWith(id, <<"]">>)) => WithIp
        /\ (/\ fn_in.grant.dst.v = <<Server>>
            /\ "ip" \in DOMAIN fn_in.grant
            /\ fn_in.grant.ip.v = << <<"*">> >>) =>
              fn_out.value = {Server}

\* the call with ip ["*"] and two destinations has returned
C4_Witness ==
    /\ Resolved
    /\ "ip" \in DOMAIN fn_in.grant
    /\ fn_in.grant.ip.v = << <<"*">> >>
    /\ fn_in.grant.dst.v = <<Server, Db>>
    /\ fn_out.value = {Server, Db}

\* the color the rules of C8 give an id
ColorById(id) ==
    LET Prefix(p) == Len(id) >= Len(p) /\ SubSeq(id, 1, Len(p)) = p
        Inside(p) == \E k \in 1..(Len(id) - Len(p) + 1) :
                        SubSeq(id, k, k + Len(p) - 1) = p
    IN IF Prefix(<<"t","a","g",":">>) THEN "#00cc66"
       ELSE IF \/ Inside(COMPANY_DOMAIN)
               \/ Prefix(<<"a","u","t","o","g","r","o","u","p",":">>)
               \/ Prefix(<<"g","r","o","u","p",":">>)
            THEN "#FFFF00"
       ELSE "#ff6666"

\* C8: _get_node_color is a function of the id alone: the tag color for an id
\* that starts with "tag:", else the group color for an id that contains the
\* company domain or starts with "autogroup:" or "group:", else the host
\* color; the color of a node of the graph is that color whatever its shape
\* and whichever rules name it.
C8_ColorById ==
    /\ fn_out.fn = "_get_node_color" =>
          fn_out.value = ColorById(fn_in.node)
    /\ \A n \in nodes : n[2] = ColorById(n[1])
    /\ \A id \in DOMAIN all_nodes : all_nodes[id][1] = ColorById(id)

\* the color of a host id that contains the company domain has been computed
\* and the graph built with that id a hexagon
C8_Witness ==
    /\ fn_out.fn = "_get_node_color"
    /\ fn_in.node = IdDomainHost
    /\ fn_out.value = NODE_COLORS.group
    /\ \E n \in nodes : n[1] = IdDomainHost /\ n[4] = "hexagon"

----------------------------------------------------------------------------
(* build_graph called again with the same arguments on the same instance *)

MaxBuilds == 2
MaxRebuildRules == 1

\* build_graph with the arguments of the call before
build_graph_again ==
    /\ builds >= 1
    /\ builds < MaxBuilds
    /\ build_graph(acls, grants)

NextRebuild ==
    \/ \E a \in ListsUpTo(AclRules, MaxRebuildRules),
          g \in ListsUpTo(GrantRules, MaxRebuildRules) :
          builds = 0 /\ build_graph(a, g)
    \/ build_graph_again
    \/ process_acls_batch_rule
    \/ process_acls_batch_return
    \/ process_grants_batch_rule
    \/ mark_mixed_nodes
    \/ update_comprehensive_tooltips
    \/ add_all_nodes
    \/ extend_edges

SpecRebuild == Init /\ [][NextRebuild]_vars

\* the node ids the rules of the document name: the sources, the ACL
\* destinations and the resolved grant destinations
DocNodeIds ==
    Referenced(acls)
    \cup UNION {Range(Iter(grants[k].src)) \cup
                resolve_grant_destinations(grants[k]) : k \in DOMAIN grants}

\* C7: building twice from the same document yields the same set of node ids
\* and the same set of edge pairs.  Every finished build, on whichever fresh
\* instance and whether the first or a later one, leaves the node ids and the
\* edge pairs that the document alone determines; and once the first build
\* has returned, no step of a later build with the same arguments changes
\* either set.
C7_SameSets ==
    /\ [](pc = Idle /\ builds >= 1 =>
             /\ NodeIds = DocNodeIds
             /\ BagToSet(edges) = DocPairs)
    /\ [][builds >= 1 =>
             /\ NodeIds' = NodeIds
             /\ BagToSet(edges') = BagToSet(edges)]_vars

\* the second build of a document with rules of both dialects has returned
C7_Witness ==
    /\ pc = Idle
    /\ builds = 2
    /\ acls # <<>>
    /\ grants # <<>>
    /\ \E n \in nodes : BaseId(n[1]) # n[1]

----------------------------------------------------------------------------
(* The public operations of one NetworkGraph, called in any order: add_node *)
(* and add_edge by hand, and build_graph with the end-to-end document.      *)

MaxEdgeCopies == 2

\* the records add_node is called with: one id with two tooltips and two
\* shapes, and an id of its own
ApiNodes ==
    { <<IdHost, NODE_COLORS.host, IdHost, "dot">>,
      <<IdHost, NODE_COLORS.host, <<"t">>, "dot">>,
      <<IdHost, NODE_COLORS.host, IdHost, "hexagon">>,
      <<IdTag, NODE_COLORS.tag, IdTag, "dot">> }

ApiEdges ==
    { <<IdTag, IdHost>>, <<IdGroup, IdHost>> }

ApiAcls ==
    <<[src |-> JList(<<IdGroup>>), dst |-> JList(<<IdHost>>)]>>

ApiGrants ==
    <<[src |-> JList(<<IdGroup>>), dst |-> JList(<<IdHost>>),
       ip |-> JList(<<Tcp443>>)]>>

NextApi ==
    \/ \E n \in ApiNodes : add_node(n[1], n[2], n[3], n[4])
    \/ \E e \in ApiEdges :
          /\ CopiesIn(e, edges) < MaxEdgeCopies
          /\ add_edge(e[1], e[2])
    \/ builds < MaxBuilds /\ build_graph(ApiAcls, ApiGrants)
    \/ process_acls_batch_rule
    \/ process_acls_batch_return
    \/ process_grants_batch_rule
    \/ mark_mixed_nodes
    \/ update_comprehensive_tooltips
    \/ add_all_nodes
    \/ extend_edges

SpecApi == Init /\ [][NextApi]_vars

\* C6: the node collection is keyed by id: after any sequence of add_node and
\* build_graph calls it holds at most one record (id, color, tooltip, shape)
\* per node id.
C6_OneRecordPerId ==
    \A n, m \in nodes : n[1] = m[1] => n = m

----------------------------------------------------------------------------
(* Validation.  A ValueError is its message, a sequence of symbols; NoError *)
(* is no exception.  The port specs of the documents are made of digits    *)
(* and letters with at most one "-": on their parts int() succeeds exactly  *)
(* when the pattern \d+ matches.                                            *)

Digits == <<"0","1","2","3","4","5","6","7","8","9">>

\* s is matched by \d+
IsDigits(s) ==
    s # <<>> /\ \A k \in DOMAIN s : s[k] \in Range(Digits)

RECURSIVE ParseInt(_)
\* int(s) for a string of digits
ParseInt(s) ==
    IF s = <<>> THEN 0
    ELSE 10 * ParseInt(SubSeq(s, 1, Len(s) - 1))
         + (CHOOSE d \in 0..9 : Digits[d + 1] = s[Len(s)])

\* int(s) succeeds: an optional sign and digits (the specs of the model hold
\* neither blanks nor underscores)
IsInt(s) ==
    IF s # <<>> /\ s[1] \in {"+", "-"} THEN IsDigits(Tail(s)) ELSE IsDigits(s)

\* int(s) when it succeeds
IntOf(s) ==
    IF s[1] = "-" THEN 0 - ParseInt(Tail(s))
    ELSE IF s[1] = "+" THEN ParseInt(Tail(s))
    ELSE ParseInt(s)

\* str(n)
Str(n) ==
    IF n < 0 THEN <<"-">> \o Decimal(0 - n) ELSE Decimal(n)

\* the exception a loop raises whose k-th iteration raises errs[k]: the first
\* one, or NoError
FirstError(errs) ==
    LET failing == {k \in DOMAIN errs : errs[k] # NoError}
    IN IF failing = {} THEN NoError
       ELSE errs[CHOOSE k \in failing : \A j \in failing : k <= j]

\* f"{type(value)}"
TypeName(x) ==
    <<"<class '", x.t, "'>">>

\* f"Grant {grant_num} missing required '{field}' field"
GrantMissing(grant_num, field) ==
    <<"Grant ">> \o Decimal(grant_num)
    \o <<" missing required '", field, "' field">>

\* f"ACL {acl_num} missing required '{field}' field"
AclMissing(acl_num, field) ==
    <<"ACL ">> \o Decimal(acl_num)
    \o <<" missing required '", field, "' field">>

\* policy_data.get(key, default)
DocGet(data, key, default) ==
    IF key \in DOMAIN data THEN data[key] ELSE default

(* PolicyParser *)

\* port_range_pattern.match(port_spec): ^(\d+)(?:-(\d+))?$
port_range_pattern_match(port_spec) ==
    \/ IsDigits(port_spec)
    \/ /\ Contains(port_spec, <<"-">>)
       /\ IsDigits(SplitHead(port_spec, <<"-">>))
       /\ IsDigits(SplitTail(port_spec, <<"-">>))

\* PolicyParser._validate_ip_specifications: one iteration of the loop
parser_ip_spec_error(ip_spec, grant_num) ==
    IF ip_spec = <<"*">> \/ ~Contains(ip_spec, <<":">>) THEN NoError
    ELSE LET port_spec == SplitTail(ip_spec, <<":">>)
             ranged == Contains(port_spec, <<"-">>)
             start_port == ParseInt(SplitHead(port_spec, <<"-">>))
             end_port == IF ranged
                         THEN ParseInt(SplitTail(port_spec, <<"-">>))
                         ELSE start_port
         IN IF ~port_range_pattern_match(port_spec)
            THEN <<"Grant ">> \o Decimal(grant_num)
                 \o <<" invalid port specification: '">> \o port_spec
                 \o <<"'">>
            ELSE IF \/ ~(MIN_PORT <= start_port /\ start_port <= MAX_PORT)
                    \/ ~(MIN_PORT <= end_port /\ end_port <= MAX_PORT)
            THEN <<"Grant ">> \o Decimal(grant_num)
                 \o <<" port out of range (">> \o Decimal(MIN_PORT)
                 \o <<"-">> \o Decimal(MAX_PORT) \o <<"): '">> \o port_spec
                 \o <<"'">>
            ELSE IF start_port > end_port
            THEN <<"Grant ">> \o Decimal(grant_num)
                 \o <<" invalid port range '">> \o port_spec
                 \o <<"': start > end">>
            ELSE NoError

\* PolicyParser._validate_ip_specifications
parser_validate_ip_specifications(ip_specs, grant_num) ==
    LET err(k) == parser_ip_spec_error(ip_specs[k], grant_num)
    IN FirstError([k \in 1..Len(ip_specs) |-> err(k)])

\* the optional fields that must be lists, in the order of the check
OptionalListFields == <<"ip", "via", "app", "srcPosture">>

\* PolicyParser._validate_policy_structure, lines 144-157: the types of the
\* fields of a grant and its ip specs
parser_grant_types_error(grant, grant_num) ==
    LET must_be_list(field) ==
            <<"Grant ">> \o Decimal(grant_num)
            \o <<" '", field, "' must be a list">>
        not_list(k) ==
            IF /\ OptionalListFields[k] \in DOMAIN grant
               /\ grant[OptionalListFields[k]].t # "list"
            THEN must_be_list(OptionalListFields[k]) \o <<" when specified">>
            ELSE NoError
        optional_error ==
            FirstError([k \in DOMAIN OptionalListFields |-> not_list(k)])
    IN IF grant.src.t # "list" THEN must_be_list("src")
       ELSE IF grant.dst.t # "list" THEN must_be_list("dst")
       ELSE IF optional_error # NoError THEN optional_error
       ELSE IF "ip" \in DOMAIN grant
       THEN parser_validate_ip_specifications(grant.ip.v, grant_num)
       ELSE NoError

\* a mutant of parser_grant_error: dst is looked for before src
parser_grant_error_dst_first(grant, grant_num) ==
    IF "dst" \notin DOMAIN grant THEN GrantMissing(grant_num, "dst")
    ELSE IF "src" \notin DOMAIN grant THEN GrantMissing(grant_num, "src")
    ELSE parser_grant_types_error(grant, grant_num)

\* PolicyParser._validate_policy_structure: one iteration of the loop over
\* the grants
parser_grant_error(grant, grant_num) ==
    IF "src" \notin DOMAIN grant THEN GrantMissing(grant_num, "src")
    ELSE IF "dst" \notin DOMAIN grant THEN GrantMissing(grant_num, "dst")
    ELSE parser_grant_types_error(grant, grant_num)

\* one iteration of a loop over the ACL rules; both validators have it
acl_error(acl, acl_num) ==
    IF "src" \notin DOMAIN acl THEN AclMissing(acl_num, "src")
    ELSE IF "dst" \notin DOMAIN acl THEN AclMissing(acl_num, "dst")
    ELSE NoError

\* PolicyParser._validate_policy_structure on the sections of the document.
\* The documents hold at most one group and one host, so the first entry of
\* a dict that fails is the entry that fails.
parser_validate_policy_structure(data) ==
    LET groups_ == DocGet(data, "groups", EmptyDict)
        hosts_ == DocGet(data, "hosts", EmptyDict)
        grants_ == DocGet(data, "grants", <<>>)
        acls_ == DocGet(data, "acls", <<>>)
        bad_groups == {n \in DOMAIN groups_ : groups_[n].t # "list"}
        bad_hosts == {n \in DOMAIN hosts_ : hosts_[n].t # "str"}
        grant_err(k) == parser_grant_error(grants_[k], k)
        acl_err(k) == acl_error(acls_[k], k)
        grants_error == FirstError([k \in DOMAIN grants_ |-> grant_err(k)])
    IN IF bad_groups # {}
       THEN LET n == CHOOSE n \in bad_groups : TRUE
            IN <<"Group '">> \o n \o <<"' members must be a list, got ">>
               \o TypeName(groups_[n])
       ELSE IF bad_hosts # {}
       THEN LET n == CHOOSE n \in bad_hosts : TRUE
            IN <<"Host '">> \o n \o <<"' IP address must be a string, got ">>
               \o TypeName(hosts_[n])
       ELSE IF grants_error # NoError THEN grants_error
       ELSE FirstError([k \in DOMAIN acls_ |-> acl_err(k)])

(* PolicyValidator *)

\* PolicyValidator._is_port_or_range
is_port_or_range(spec) ==
    IF Contains(spec, <<"-">>)
    THEN /\ IsInt(SplitHead(spec, <<"-">>))
         /\ IsInt(SplitTail(spec, <<"-">>))
    ELSE IsInt(spec)

\* f"{{...}}" of VALID_PROTOCOLS, a set: its order is the interpreter's
ValidProtocolsText == <<"<VALID_PROTOCOLS>">>

\* f"({MIN_PORT}-{MAX_PORT}) in '{full_spec}'"
ValidRangeIn(full_spec) ==
    <<" out of valid range (">> \o Decimal(MIN_PORT) \o <<"-">>
    \o Decimal(MAX_PORT) \o <<") in '">> \o full_spec \o <<"'">>

\* a mutant of port_range_error: the order of the two ports is not checked
port_range_error_unordered(port_spec, grant_num, full_spec) ==
    LET grant_ == <<"Grant ">> \o Decimal(grant_num) \o <<": ">>
        start_text == SplitHead(port_spec, <<"-">>)
        end_text == SplitTail(port_spec, <<"-">>)
    IN IF ~IsInt(start_text) \/ ~IsInt(end_text)
       THEN grant_ \o <<"Invalid port range format in '">>
            \o full_spec \o <<"'">>
       ELSE IF IntOf(start_text) < MIN_PORT \/ IntOf(start_text) > MAX_PORT
       THEN grant_ \o <<"Start port ">> \o Str(IntOf(start_text))
            \o ValidRangeIn(full_spec)
       ELSE IF IntOf(end_text) < MIN_PORT \/ IntOf(end_text) > MAX_PORT
       THEN grant_ \o <<"End port ">> \o Str(IntOf(end_text))
            \o ValidRangeIn(full_spec)
       ELSE NoError

\* PolicyValidator._validate_port_specification, lines 142-158: a port range
port_range_error(port_spec, grant_num, full_spec) ==
    LET grant_ == <<"Grant ">> \o Decimal(grant_num) \o <<": ">>
        start_text == SplitHead(port_spec, <<"-">>)
        end_text == SplitTail(port_spec, <<"-">>)
        start_port == IntOf(start_text)
        end_port == IntOf(end_text)
    IN IF ~IsInt(start_text) \/ ~IsInt(end_text)
       THEN grant_ \o <<"Invalid port range format in '">>
            \o full_spec \o <<"'">>
       ELSE IF start_port < MIN_PORT \/ start_port > MAX_PORT
       THEN grant_ \o <<"Start port ">> \o Str(start_port)
            \o ValidRangeIn(full_spec)
       ELSE IF end_port < MIN_PORT \/ end_port > MAX_PORT
       THEN grant_ \o <<"End port ">> \o Str(end_port)
            \o ValidRangeIn(full_spec)
       ELSE IF start_port > end_port
       THEN grant_ \o <<"Invalid port range ">>
            \o Str(start_port) \o <<"-">> \o Str(end_port)
            \o <<" in '">> \o full_spec \o <<"'">>
       ELSE NoError

\* a mutant of single_port_error: a port out of range is reported as a port
\* that is not a number
single_port_error_format(port_spec, grant_num, full_spec) ==
    IF \/ ~IsInt(port_spec)
       \/ IntOf(port_spec) < MIN_PORT
       \/ IntOf(port_spec) > MAX_PORT
    THEN <<"Grant ">> \o Decimal(grant_num)
         \o <<": ", "Invalid port format in '">> \o full_spec \o <<"'">>
    ELSE NoError

\* PolicyValidator._validate_port_specification, lines 159-167: a single port
single_port_error(port_spec, grant_num, full_spec) ==
    LET grant_ == <<"Grant ">> \o Decimal(grant_num) \o <<": ">>
    IN IF ~IsInt(port_spec)
       THEN grant_ \o <<"Invalid port format in '">> \o full_spec \o <<"'">>
       ELSE IF IntOf(port_spec) < MIN_PORT \/ IntOf(port_spec) > MAX_PORT
       THEN grant_ \o <<"Port ">> \o Str(IntOf(port_spec))
            \o ValidRangeIn(full_spec)
       ELSE NoError

\* PolicyValidator._validate_port_specification
validate_port_specification(port_spec, grant_num, full_spec) ==
    IF Contains(port_spec, <<"-">>)
    THEN port_range_error(port_spec, grant_num, full_spec)
    ELSE single_port_error(port_spec, grant_num, full_spec)

\* PolicyValidator.validate_ip_specifications: one iteration of the loop
validator_ip_spec_error(spec, grant_num) ==
    LET grant_ == <<"Grant ">> \o Decimal(grant_num) \o <<": ">>
    IN IF spec = <<"*">> THEN NoError
       ELSE IF Contains(spec, <<":">>)
       THEN IF SplitHead(spec, <<":">>) \notin VALID_PROTOCOLS
            THEN grant_ \o <<"Invalid protocol '">> \o SplitHead(spec, <<":">>)
                 \o <<"'. Valid protocols: ">> \o ValidProtocolsText
            ELSE validate_port_specification(SplitTail(spec, <<":">>),
                                             grant_num, spec)
       ELSE IF is_port_or_range(spec)
       THEN validate_port_specification(spec, grant_num, spec)
       ELSE IF spec \in VALID_PROTOCOLS THEN NoError
       ELSE grant_ \o <<"Invalid specification '">> \o spec
            \o <<"'. Must be a port number, port range, protocol name, ",
                 "or protocol:port format. Valid protocols: ">>
            \o ValidProtocolsText

\* PolicyValidator.validate_ip_specifications
validate_ip_specifications(ip_specs, grant_num) ==
    LET specs == IF ip_specs.t = "str" THEN <<ip_specs.v[1]>> ELSE ip_specs.v
        err(k) == validator_ip_spec_error(specs[k], grant_num)
    IN FirstError([k \in 1..Len(specs) |-> err(k)])

\* PolicyValidator._validate_grants_structure: one iteration of the loop
validator_grant_error(grant, grant_num) ==
    IF "src" \notin DOMAIN grant THEN GrantMissing(grant_num, "src")
    ELSE IF "dst" \notin DOMAIN grant THEN GrantMissing(grant_num, "dst")
    ELSE IF grant.src.t # "list"
    THEN <<"Grant ">> \o Decimal(grant_num)
         \o <<" '", "src", "' field must be a list">>
    ELSE IF "ip" \in DOMAIN grant
    THEN validate_ip_specifications(grant.ip, grant_num)
    ELSE NoError

\* PolicyValidator.validate_policy_structure
validate_policy_structure(data) ==
    LET grant_err(k) == validator_grant_error(data.grants[k], k)
        acl_err(k) == acl_error(data.acls[k], k)
        grants_error == IF "grants" \in DOMAIN data
                        THEN FirstError([k \in DOMAIN data.grants |->
                                            grant_err(k)])
                        ELSE NoError
    IN IF grants_error # NoError THEN grants_error
       ELSE IF "acls" \in DOMAIN data
       THEN FirstError([k \in DOMAIN data.acls |-> acl_err(k)])
       ELSE NoError

----------------------------------------------------------------------------
(* main: parse_policy, then NetworkGraph, build_graph and the rendering.    *)
(* The tests call PolicyValidator.validate_policy_structure on a document;  *)
(* here it is called on the document main reads.                            *)

BadPort == <<"t","c","p",":","0">>
EmptyProto == <<":","8","0">>

MainGrantRules ==
    { [src |-> JList(<<IdGroup>>), dst |-> JList(<<IdHost>>),
       ip |-> JList(<<Tcp443>>)],
      [src |-> JList(<<IdGroup>>)],
      [dst |-> JList(<<IdHost>>)],
      [ip |-> JList(<<Tcp443>>)],
      [src |-> JStr(IdGroup), dst |-> JList(<<IdHost>>)],
      [src |-> JList(<<IdGroup>>), dst |-> JList(<<IdHost>>),
       ip |-> JList(<<BadPort>>)],
      [src |-> JList(<<IdGroup>>), dst |-> JList(<<IdHost>>),
       ip |-> JList(<<EmptyProto>>)],
      [src |-> JList(<<IdGroup>>), dst |-> JList(<<IdHost>>),
       ip |-> JStr(Tcp443)] }

MainAclRules ==
    { [action |-> <<"a","c","c","e","p","t">>, src |-> JList(<<IdGroup>>),
       dst |-> JList(<<IdHost>>)],
      [src |-> JList(<<IdGroup>>)] }

MainGroups ==
    { [n \in {IdGroup} |-> JList(<< <<"a@example.com">> >>)],
      [n \in {IdGroup} |-> JStr(<<"a@example.com">>)] }

MainHosts ==
    { [n \in {IdHost} |-> JStr(<<"100.64.1.1">>)],
      [n \in {IdHost} |-> JList(<< <<"100.64.1.1">> >>)] }

\* the documents load_json_or_hujson returns
Documents ==
    {[groups |-> gr, hosts |-> h, acls |-> a, grants |-> g] :
        gr \in MainGroups, h \in MainHosts,
        a \in ListsUpTo(MainAclRules, MaxAcls),
        g \in ListsUpTo(MainGrantRules, MaxGrants)}
    \cup {[acls |-> a, grants |-> g] :
        a \in ListsUpTo(MainAclRules, MaxAcls),
        g \in ListsUpTo(MainGrantRules, MaxGrants)}

\* main, lines 105-113: parse_policy raises and main logs and returns, or
\* parse_policy returns
main_parse_policy ==
    /\ pc = "parse_policy"
    /\ error' = parser_validate_policy_structure(policy_data)
    /\ pc' = IF error' # NoError THEN "return" ELSE "NetworkGraph"
    /\ UNCHANGED <<hosts, groups, rule_line_numbers, nodes, edges,
                   node_metadata, edge_metadata, acls, grants, idx, all_nodes,
                   all_edges, acl_nodes, grant_nodes, builds, policy_data,
                   rendered, fn_in, fn_out>>

\* what the parser keeps of a section of values of one type
Values(section) ==
    [n \in DOMAIN section |->
        IF section[n].t = "str" THEN section[n].v[1] ELSE section[n].v]

\* main, line 116: NetworkGraph(policy_parser.hosts, policy_parser.groups)
main_network_graph ==
    /\ pc = "NetworkGraph"
    /\ pc' = Idle
    /\ hosts' = Values(DocGet(policy_data, "hosts", EmptyDict))
    /\ groups' = Values(DocGet(policy_data, "groups", EmptyDict))
    /\ rule_line_numbers' = [acls |-> <<>>, grants |-> <<>>]
    /\ nodes' = {}
    /\ edges' = EmptyBag
    /\ node_metadata' = EmptyDict
    /\ edge_metadata' = EmptyDict
    /\ UNCHANGED <<acls, grants, idx, all_nodes, all_edges, acl_nodes,
                   grant_nodes, builds, policy_data, error, rendered, fn_in,
                   fn_out>>

\* main, line 118: build_graph(policy_parser.acls, policy_parser.grants)
main_build_graph ==
    /\ policy_data # NoDocument
    /\ builds = 0
    /\ build_graph(DocGet(policy_data, "acls", <<>>),
                   DocGet(policy_data, "grants", <<>>))

\* main, lines 122-124: the rendering, and the return
main_render ==
    /\ policy_data # NoDocument
    /\ pc = Idle
    /\ builds = 1
    /\ rendered' = TRUE
    /\ pc' = "return"
    /\ UNCHANGED <<hosts, groups, rule_line_numbers, nodes, edges,
                   node_metadata, edge_metadata, acls, grants, idx, all_nodes,
                   all_edges, acl_nodes, grant_nodes, builds, policy_data,
                   error, fn_in, fn_out>>

\* PolicyValidator.validate_policy_structure(data)
call_validate_policy_structure ==
    /\ fn_in.fn = "validate_policy_structure"
    /\ fn_out = NotCalled
    /\ fn_out' = [fn |-> fn_in.fn,
                  value |-> validate_policy_structure(fn_in.data)]
    /\ UNCHANGED <<hosts, groups, rule_line_numbers, nodes, edges,
                   node_metadata, edge_metadata, pc, acls, grants, idx,
                   all_nodes, all_edges, acl_nodes, grant_nodes, builds,
                   policy_data, error, rendered, fn_in>>

InitMain ==
    /\ policy_data \in Documents
    /\ fn_in = [fn |-> "validate_policy_structure", data |-> policy_data]
    /\ fn_out = NotCalled
    /\ pc = "parse_policy"
    /\ error = NoError
    /\ rendered = FALSE
    /\ hosts = EmptyDict
    /\ groups = EmptyDict
    /\ rule_line_numbers = EmptyDict
    /\ nodes = {}
    /\ edges = EmptyBag
    /\ node_metadata = EmptyDict
    /\ edge_metadata = EmptyDict
    /\ acls = <<>>
    /\ grants = <<>>
    /\ idx = 0
    /\ all_nodes = EmptyDict
    /\ all_edges = {}
    /\ acl_nodes = {}
    /\ grant_nodes = {}
    /\ builds = 0

NextMain ==
    \/ main_parse_policy
    \/ main_network_graph
    \/ main_build_graph
    \/ process_acls_batch_rule
    \/ process_acls_batch_return
    \/ process_grants_batch_rule
    \/ mark_mixed_nodes
    \/ update_comprehensive_tooltips
    \/ add_all_nodes
    \/ extend_edges
    \/ main_render
    \/ call_validate_policy_structure

SpecMain == InitMain /\ [][NextMain]_vars

----------------------------------------------------------------------------
(* Claims on main *)

DocGrants ==
    DocGet(policy_data, "grants", <<>>)

\* the grants of the document that lack src or dst
LackingGrants ==
    {k \in DOMAIN DocGrants :
        "src" \notin DOMAIN DocGrants[k] \/ "dst" \notin DOMAIN DocGrants[k]}

FirstLacking ==
    CHOOSE k \in LackingGrants : \A j \in LackingGrants : k <= j

\* the message that names the first grant that lacks a field, and the field
FirstLackingMessage ==
    <<"Grant ">> \o Decimal(FirstLacking) \o <<" missing required '">>
    \o <<IF "src" \notin DOMAIN DocGrants[FirstLacking] THEN "src" ELSE "dst">>
    \o <<"' field">>

\* parse_policy has raised and main has returned
ParseFailed ==
    pc = "return" /\ error # NoError

\* PolicyValidator.validate_policy_structure has been called on the document
Validated ==
    fn_out.fn = "validate_policy_structure"

\* no check of PolicyParser fails before the first grant that lacks a field
ParserReachesFirstLacking ==
    /\ \A n \in DOMAIN DocGet(policy_data, "groups", EmptyDict) :
          policy_data.groups[n].t = "list"
    /\ \A n \in DOMAIN DocGet(policy_data, "hosts", EmptyDict) :
          policy_data.hosts[n].t = "str"
    /\ \A j \in 1..(FirstLacking - 1) :
          parser_grant_error(DocGrants[j], j) = NoError

\* no check of PolicyValidator fails before the first grant that lacks a
\* field
ValidatorReachesFirstLacking ==
    \A j \in 1..(FirstLacking - 1) :
        validator_grant_error(DocGrants[j], j) = NoError

\* build_graph or the rendering has been invoked
GraphInvoked ==
    \/ pc \notin {"parse_policy", "return"}
    \/ builds > 0
    \/ rendered
    \/ nodes # {}
    \/ edges # EmptyBag

\* C10, as the code has it: if a grant lacks src or dst, validation raises an
\* error that propagates out of parse_policy, and build_graph and the
\* rendering are never invoked.  Validation stops at the first check that
\* fails, in the order of the document: the message names the 1-based index
\* of the first such grant and its missing field (src when it lacks both)
\* when no earlier check fails, that is when the groups and hosts have their
\* types and every earlier grant passes its checks.
C10_MissingFieldStops ==
    LackingGrants # {} =>
        /\ ~GraphInvoked
        /\ pc = "return" => error # NoError
        /\ (ParseFailed /\ ParserReachesFirstLacking) =>
              error = FirstLackingMessage
        /\ Validated => fn_out.value # NoError
        /\ (Validated /\ ValidatorReachesFirstLacking) =>
              fn_out.value = FirstLackingMessage

\* main has returned and the validator has been called on a document whose
\* first grant is well-formed and whose second grant lacks dst
C10_Witness ==
    /\ LackingGrants = {2}
    /\ ParseFailed
    /\ error = <<"Grant ", "2", " missing required '", "dst", "' field">>
    /\ Validated
    /\ fn_out.value = error

\* C10, as stated: if a grant lacks src or dst, the error names the 1-based
\* index of the first such grant and the missing field, and build_graph and
\* the rendering are never invoked.
C10_FirstLackingNamed ==
    LackingGrants # {} =>
        /\ ~GraphInvoked
        /\ pc = "return" => error = FirstLackingMessage
        /\ Validated => fn_out.value = FirstLackingMessage

----------------------------------------------------------------------------
(* Validation of the shapes of rules: main and PolicyValidator on documents *)
(* whose grants and ACL rules hold fields of every type and empty lists.    *)

UnknownProto == <<"f","o","o",":","8","0">>
IdVia == <<"t","a","g",":","r">>
IdPosture == <<"posture:src">>
IdApp == <<"example.com/cap">>

GrantOk ==
    [src |-> JList(<<IdGroup>>), dst |-> JList(<<IdHost>>),
     ip |-> JList(<<Tcp443>>)]

ShapeGrantRules ==
    { GrantOk,
      [src |-> JList(<<IdGroup>>), dst |-> JStr(IdHost)],
      [src |-> JStr(IdGroup), dst |-> JList(<<IdHost>>)],
      [src |-> JList(<<IdGroup>>), dst |-> JList(<<IdHost>>),
       via |-> JStr(IdVia)],
      [src |-> JList(<<IdGroup>>), dst |-> JList(<<IdHost>>),
       srcPosture |-> JStr(IdPosture)],
      [src |-> JList(<<IdGroup>>), dst |-> JList(<<IdHost>>),
       ip |-> JStr(Tcp443)],
      [src |-> JList(<<IdGroup>>), dst |-> JList(<<IdHost>>),
       app |-> JStr(IdApp)],
      [src |-> JList(<<IdGroup>>), dst |-> JList(<<IdHost>>),
       app |-> JList(<<IdApp>>)],
      [src |-> JList(<<IdGroup>>), dst |-> JList(<<IdHost>>),
       app |-> JDict(<<IdApp>>)],
      [src |-> JList(<<>>), dst |-> JList(<<IdHost>>)],
      [src |-> JList(<<IdGroup>>), dst |-> JList(<<>>)],
      [src |-> JList(<<IdGroup>>), dst |-> JList(<<IdHost>>),
       ip |-> JList(<<UnknownProto>>)] }

ShapeAclRules ==
    { [action |-> <<"a","c","c","e","p","t">>, src |-> JList(<<IdGroup>>),
       dst |-> JList(<<IdHost>>)],
      [action |-> <<"a","c","c","e","p","t">>, src |-> JList(<<>>),
       dst |-> JList(<<IdHost>>)],
      [action |-> <<"a","c","c","e","p","t">>, src |-> JList(<<IdGroup>>),
       dst |-> JList(<<>>)] }

ShapeDocuments ==
    {[acls |-> a, grants |-> g] :
        a \in ListsUpTo(ShapeAclRules, MaxAcls),
        g \in ListsUpTo(ShapeGrantRules, MaxGrants)}

InitShapes ==
    /\ policy_data \in ShapeDocuments
    /\ fn_in = [fn |-> "validate_policy_structure", data |-> policy_data]
    /\ fn_out = NotCalled
    /\ pc = "parse_policy"
    /\ error = NoError
    /\ rendered = FALSE
    /\ hosts = EmptyDict
    /\ groups = EmptyDict
    /\ rule_line_numbers = EmptyDict
    /\ nodes = {}
    /\ edges = EmptyBag
    /\ node_metadata = EmptyDict
    /\ edge_metadata = EmptyDict
    /\ acls = <<>>
    /\ grants = <<>>
    /\ idx = 0
    /\ all_nodes = EmptyDict
    /\ all_edges = {}
    /\ acl_nodes = {}
    /\ grant_nodes = {}
    /\ builds = 0

SpecShapes == InitShapes /\ [][NextMain]_vars

----------------------------------------------------------------------------
(* Claims on the validation of shapes *)

\* the grants of the document whose field is present and is not a list
NotList(field) ==
    {k \in DOMAIN DocGrants :
        field \in DOMAIN DocGrants[k] /\ DocGrants[k][field].t # "list"}

\* the message names the 1-based index of a grant of `ks` and the field
NamesGrantField(message, ks, field) ==
    \E k \in ks :
        /\ Contains(message, <<"Grant ">> \o Decimal(k))
        /\ Contains(message, <<field>>)

\* C11: PolicyValidator.validate_policy_structure rejects every grant whose
\* src or dst is present and is not a list, with an error that names the
\* 1-based index of the grant and the field: a document that holds such a
\* grant is not accepted.
C11_NonListSrcDstRejected ==
    (Validated /\ NotList("src") \cup NotList("dst") # {}) =>
        /\ fn_out.value # NoError
        /\ (\A j \in DOMAIN DocGrants :
               j \in NotList("src") \cup NotList("dst")
               \/ validator_grant_error(DocGrants[j], j) = NoError) =>
              \/ NamesGrantField(fn_out.value, NotList("src"), "src")
              \/ NamesGrantField(fn_out.value, NotList("dst"), "dst")

\* the grants of the document that hold an ip entry of an unknown protocol
UnknownProtoGrants ==
    {k \in DOMAIN DocGrants :
        /\ "ip" \in DOMAIN DocGrants[k]
        /\ DocGrants[k].ip.t = "list"
        /\ \E n \in DOMAIN DocGrants[k].ip.v :
              /\ Contains(DocGrants[k].ip.v[n], <<":">>)
              /\ SplitHead(DocGrants[k].ip.v[n], <<":">>)
                    \notin VALID_PROTOCOLS}

\* the grants of the document that hold an app field
AppGrants ==
    {k \in DOMAIN DocGrants : "app" \in DOMAIN DocGrants[k]}

\* every grant of the document has list-typed src, dst, ip, via and
\* srcPosture, and ip entries of known protocols
ListTyped ==
    /\ NotList("src") \cup NotList("dst") = {}
    /\ NotList("ip") \cup NotList("via") \cup NotList("srcPosture") = {}
    /\ UnknownProtoGrants = {}

\* C12: validation rejects a grant whose ip, via or srcPosture is present and
\* is not a list, and accepts a grant whose app is a string, a list or a
\* mapping, on the path of parse_policy and in PolicyValidator.
C12_OptionalFieldTypes ==
    /\ NotList("ip") \cup NotList("via") \cup NotList("srcPosture") # {} =>
          /\ pc = "return" => error # NoError
          /\ Validated => fn_out.value # NoError
    /\ (ListTyped /\ AppGrants # {}) =>
          /\ pc = "return" => error = NoError
          /\ Validated => fn_out.value = NoError

\* C14: an ip entry 'protocol:port' whose protocol is not in the whitelist is
\* a hard validation error on every path: PolicyValidator raises, parse_policy
\* raises, and the document is not accepted, so no graph is built from it.
C14_UnknownProtocolRejected ==
    UnknownProtoGrants # {} =>
        /\ Validated => fn_out.value # NoError
        /\ pc = "return" => error # NoError
        /\ ~GraphInvoked

\* the rules of the document whose src or dst is an empty list
EmptyEnds(rules) ==
    {k \in DOMAIN rules :
        \E field \in {"src", "dst"} :
            /\ field \in DOMAIN rules[k]
            /\ rules[k][field] = JList(<<>>)}

\* C15: every document accepted by validation has a non-empty src and a
\* non-empty dst in every ACL rule and every grant: a rule whose src or dst
\* is an empty list is rejected and never reaches build_graph.
C15_NoEmptyEnds ==
    (EmptyEnds(DocGrants) \cup EmptyEnds(DocGet(policy_data, "acls", <<>>))
        # {}) =>
        /\ Validated => fn_out.value # NoError
        /\ pc = "return" => error # NoError
        /\ ~GraphInvoked

----------------------------------------------------------------------------
(* PolicyValidator.validate_ip_specifications on lists of ip entries *)

MaxIpSpecs == 2

Wildcard == <<"*">>
Port443 == <<"4","4","3">>
Port0 == <<"0">>
PortMax == <<"6","5","5","3","5">>
PortOver == <<"6","5","5","3","6">>
PortSigned == <<"+","8","0">>
Range8090 == <<"8","0","-","9","0">>
Range9080 == <<"9","0","-","8","0">>
Range0To5 == <<"0","-","5">>
RangeOver == <<"5","-","6","5","5","3","6">>
RangeNegEnd == <<"5","-","-","3">>
ProtoTcp == <<"t","c","p">>
ProtoIpv6Icmp == <<"i","p","v","6","-","i","c","m","p">>
ProtoFoo == <<"f","o","o">>
TcpOver == <<"t","c","p",":","9","9","9","9","9">>
UdpOver == <<"u","d","p",":","6","5","5","3","6">>
TcpRange == <<"t","c","p",":","8","0","-","9","0">>
TcpRangeRev == <<"t","c","p",":","9","0","-","8","0">>
SctpMax == <<"s","c","t","p",":","6","5","5","3","5">>
TcpWord == <<"t","c","p",":","x">>
TcpNoPort == <<"t","c","p",":">>
FooZero == <<"f","o","o",":","0">>

\* the ip entries of the calls: every form the method accepts, and entries that
\* break each of its checks
IpEntries ==
    { Tcp443, BadPort, UnknownProto, Wildcard, Port443,
      Port0, PortMax, PortOver, PortSigned, Range8090,
      Range9080, Range0To5, RangeOver, RangeNegEnd, ProtoTcp,
      ProtoIpv6Icmp, ProtoFoo, TcpOver, TcpRange, TcpRangeRev,
      SctpMax, TcpWord, TcpNoPort, FooZero, UdpOver }

IpInputs ==
    {[fn |-> "validate_ip_specifications", ip_specs |-> JList(specs),
      grant_num |-> 1] : specs \in ListsUpTo(IpEntries, MaxIpSpecs)}
    \cup {[fn |-> "validate_ip_specifications", ip_specs |-> JStr(spec),
           grant_num |-> 1] : spec \in IpEntries}

\* PolicyValidator.validate_ip_specifications(ip_specs, grant_num)
call_validate_ip_specifications ==
    /\ fn_in.fn = "validate_ip_specifications"
    /\ fn_out = NotCalled
    /\ fn_out' = [fn |-> fn_in.fn,
                  value |-> validate_ip_specifications(fn_in.ip_specs,
                                                       fn_in.grant_num)]
    /\ UNCHANGED <<hosts, groups, rule_line_numbers, nodes, edges,
                   node_metadata, edge_metadata, pc, acls, grants, idx,
                   all_nodes, all_edges, acl_nodes, grant_nodes, builds,
                   policy_data, error, rendered, fn_in>>

InitIp ==
    /\ NetworkGraphInit(EmptyDict, EmptyDict, EmptyDict)
    /\ NoCall
    /\ policy_data = NoDocument
    /\ error = NoError
    /\ rendered = FALSE
    /\ fn_in \in IpInputs
    /\ fn_out = NotCalled

NextIp ==
    call_validate_ip_specifications

SpecIp == InitIp /\ [][NextIp]_vars

----------------------------------------------------------------------------
(* Claims on validate_ip_specifications *)

\* the protocol names of the whitelist
Whitelist ==
    { <<"t","c","p">>,
      <<"u","d","p">>,
      <<"i","c","m","p">>,
      <<"a","h">>,
      <<"e","s","p">>,
      <<"g","r","e">>,
      <<"i","p","v","6","-","i","c","m","p">>,
      <<"o","s","p","f">>,
      <<"s","c","t","p">> }

\* s is a port p with 1 <= p <= 65535
IsPort(s) ==
    IsInt(s) /\ 1 <= IntOf(s) /\ IntOf(s) <= 65535

\* s is 'a-b' for two numbers a and b
IsNumberRange(s) ==
    /\ Contains(s, <<"-">>)
    /\ IsInt(SplitHead(s, <<"-">>))
    /\ IsInt(SplitTail(s, <<"-">>))

\* s is a range 's-e' with 1 <= s <= e <= 65535
IsRange(s) ==
    /\ IsNumberRange(s)
    /\ 1 <= IntOf(SplitHead(s, <<"-">>))
    /\ IntOf(SplitHead(s, <<"-">>)) <= IntOf(SplitTail(s, <<"-">>))
    /\ IntOf(SplitTail(s, <<"-">>)) <= 65535

\* the entry has one of the forms of the grant syntax
WellFormed(entry) ==
    \/ entry = <<"*">>
    \/ IsPort(entry)
    \/ IsRange(entry)
    \/ entry \in Whitelist
    \/ /\ Contains(entry, <<":">>)
       /\ SplitHead(entry, <<":">>) \in Whitelist
       /\ \/ IsPort(SplitTail(entry, <<":">>))
          \/ IsRange(SplitTail(entry, <<":">>))

\* s is a port below 1 or above 65535, or a range with such a port or with
\* start > end
BadPortText(s) ==
    \/ IsInt(s) /\ ~IsPort(s)
    \/ IsNumberRange(s) /\ ~IsRange(s)

\* the entry is a bare port or range, or a port or range of a protocol of
\* the whitelist, and the port or range is out of bounds
PortOutOfBounds(entry) ==
    \/ BadPortText(entry)
    \/ /\ Contains(entry, <<":">>)
       /\ SplitHead(entry, <<":">>) \in Whitelist
       /\ BadPortText(SplitTail(entry, <<":">>))

\* the entry holds a port or range that is out of bounds, whatever its
\* protocol
HoldsBadPort(entry) ==
    \/ BadPortText(entry)
    \/ Contains(entry, <<":">>) /\ BadPortText(SplitTail(entry, <<":">>))

\* validate_ip_specifications has been called on a list
CalledOnList ==
    /\ fn_out.fn = "validate_ip_specifications"
    /\ fn_in.ip_specs.t = "list"

IpList == fn_in.ip_specs.v

\* the first entry of the list that has none of the forms
FirstIllFormed ==
    IpList[CHOOSE k \in DOMAIN IpList :
              /\ ~WellFormed(IpList[k])
              /\ \A j \in 1..(k - 1) : WellFormed(IpList[j])]

C13_WitnessAccepted ==
    /\ CalledOnList
    /\ IpList = <<ProtoIpv6Icmp, SctpMax>>
    /\ fn_out.value = NoError

\* the entry is '<protocol of the whitelist>:<port>' and the port is a number
\* above 65535
PortAboveMax(entry) ==
    /\ Contains(entry, <<":">>)
    /\ SplitHead(entry, <<":">>) \in Whitelist
    /\ IsDigits(SplitTail(entry, <<":">>))
    /\ ParseInt(SplitTail(entry, <<":">>)) > 65535

\* the method has been called and the first entry it rejects, if any, is a
\* port above 65535 of a protocol of the whitelist
CalledOnPortAboveMax ==
    /\ CalledOnList
    /\ \E k \in DOMAIN IpList : ~WellFormed(IpList[k])
    /\ PortAboveMax(FirstIllFormed)

----------------------------------------------------------------------------
(* build_graph called several times on one NetworkGraph, each time with the *)
(* rules of another document                                                *)

\* graph.build_graph(acls, grants)
build_graph_call ==
    /\ builds < MaxBuilds
    /\ \E a \in ListsUpTo(AclRules, MaxRebuildRules),
          g \in ListsUpTo(GrantRules, MaxRebuildRules) :
          build_graph(a, g)

NextBuilds ==
    \/ build_graph_call
    \/ process_acls_batch_rule
    \/ process_acls_batch_return
    \/ process_grants_batch_rule
    \/ mark_mixed_nodes
    \/ update_comprehensive_tooltips
    \/ add_all_nodes
    \/ extend_edges

SpecBuilds == Init /\ [][NextBuilds]_vars

\* the record of node n holds a reference of the dialect, as source or as
\* destination
HasReference(n, dialect) ==
    \E role \in {"src_rules", "dst_rules"} :
        \E k \in DOMAIN node_metadata[n][role] :
            node_metadata[n][role][k][1] = dialect

\* the rule_type of a record that holds the references of n
DialectsOf(n) ==
    IF HasReference(n, "ACL rule ") /\ HasReference(n, "Grant rule ")
    THEN "Mixed"
    ELSE IF HasReference(n, "ACL rule ") THEN "ACL"
    ELSE "Grant"

\* C16: in the search index the rule_type of a node is Mixed exactly when
\* ACL rules and grants have referenced its base id, ACL when only ACL rules
\* have and Grant when only grants have, whichever dialect referenced it
\* first, on one build or over several builds of one instance; and a node
\* that is Mixed stays Mixed.
C16_RuleTypeOfReferences ==
    /\ [](pc = Idle =>
            \A n \in DOMAIN node_metadata :
                node_metadata[n].rule_type = DialectsOf(n))
    /\ [][\A n \in DOMAIN node_metadata :
             node_metadata[n].rule_type = "Mixed" =>
                 /\ n \in DOMAIN node_metadata'
                 /\ node_metadata'[n].rule_type = "Mixed"]_vars

----------------------------------------------------------------------------
(* Claims on the rule references, the tooltips and the edge index after one *)
(* build of a fresh NetworkGraph (specification Spec)                       *)

\* the 1-based positions, ascending, of the rules that name n in `field`
PositionsNaming(rules, field, n) ==
    LET names(k) == n \in Range(Iter(rules[k][field]))
    IN SelectSeq([k \in 1..Len(rules) |-> k], names)

\* ' (Ln L)' when the line map holds a line L for the rule at 1-based
\* position k of section `key`, and nothing otherwise
LineSuffix(key, k) ==
    IF key \in DOMAIN rule_line_numbers /\ k \in DOMAIN rule_line_numbers[key]
    THEN <<" (Ln ">> \o Decimal(rule_line_numbers[key][k]) \o <<")">>
    ELSE <<>>

\* the entries 'ACL rule i' then 'Grant rule j' of the rules that name n in
\* `field`
ExpectedRules(field, n) ==
    LET acl_positions == PositionsNaming(acls, field, n)
        grant_positions == PositionsNaming(grants, field, n)
    IN [k \in DOMAIN acl_positions |->
           <<"ACL rule ">> \o Decimal(acl_positions[k])
           \o LineSuffix("acls", acl_positions[k])]
       \o [k \in DOMAIN grant_positions |->
              <<"Grant rule ">> \o Decimal(grant_positions[k])
              \o LineSuffix("grants", grant_positions[k])]

\* C17: after build_graph on a fresh NetworkGraph, src_rules (dst_rules) of
\* every node base id lists one entry 'ACL rule i' per ACL rule that names it
\* as source (destination), in ascending i, then one entry 'Grant rule j' per
\* grant that names it, in ascending j, with 1-based positions; an entry ends
\* with ' (Ln L)' exactly when the line map holds a line L for its rule.
C17_RuleReferences ==
    FirstBuildDone =>
        /\ DOMAIN node_metadata = Referenced(acls) \cup Referenced(grants)
        /\ \A n \in DOMAIN node_metadata :
              /\ node_metadata[n].src_rules = ExpectedRules("src", n)
              /\ node_metadata[n].dst_rules = ExpectedRules("dst", n)

\* a build with a line map for the first ACL rule only has ended: the group
\* is the source of two ACL rules and of a grant
C17_Witness ==
    /\ FirstBuildDone
    /\ rule_line_numbers # EmptyDict
    /\ Len(acls) = 2
    /\ IdGroup \in DOMAIN node_metadata
    /\ Len(node_metadata[IdGroup].src_rules) >= 3
    /\ node_metadata[IdGroup].src_rules[1]
          = <<"ACL rule ", "1", " (Ln ", "3", ")">>
    /\ node_metadata[IdGroup].src_rules[2] = <<"ACL rule ", "2">>
    /\ node_metadata[IdGroup].src_rules[3]
          = <<"Grant rule ", "1", " (Ln ", "7", ")">>

\* the tooltip holds the rule-type indicator and the rule references of the
\* metadata record
ComposedFrom(tooltip, metadata) ==
    /\ Contains(tooltip, Join(<<"\n">>, RuleTypeLines(metadata.rule_type)))
    /\ Contains(tooltip,
                Join(<<"\n">>, RuleReferenceLines(metadata.src_rules,
                                                  metadata.dst_rules)))

\* C18: every node of the final node set, an enhanced id 'base [..]'
\* included, has a tooltip composed from the metadata record of its base id:
\* it holds the indicator of the rule_type of the base and the rule
\* references of the base; the tooltip of every hexagon holds the Mixed
\* indicator.
C18_TooltipFromBaseMetadata ==
    FirstBuildDone =>
        \A node \in nodes :
            /\ BaseId(node[1]) \in DOMAIN node_metadata
            /\ ComposedFrom(node[3], node_metadata[BaseId(node[1])])
            /\ node[4] = "hexagon" =>
                  Contains(node[3], RuleTypeLines("Mixed")[1])

\* the value a rule holds in a list field, [] without the field
FieldOf(rule, field) ==
    IF field \in DOMAIN rule THEN rule[field].v ELSE <<>>

\* the names of the apps of a grant: the keys of a mapping, the entries of a
\* list, the string itself
AppNames(grant) ==
    IF "app" \notin DOMAIN grant THEN <<>>
    ELSE IF grant.app.t = "str" THEN <<grant.app.v[1]>>
    ELSE grant.app.v

\* the entry describes ACL rule k, which produces the pair
DescribesAcl(entry, pair, k) ==
    /\ pair \in AclPairs(k)
    /\ DOMAIN entry = {"src", "dst", "rule_type", "rule_index", "action",
                       "protocols", "via", "posture", "apps"}
    /\ entry.src = pair[1]
    /\ entry.dst = pair[2]
    /\ entry.rule_type = "ACL"
    /\ entry.rule_index = k
    /\ entry.action = (IF "action" \in DOMAIN acls[k] THEN acls[k].action
                       ELSE <<"a","c","c","e","p","t">>)
    /\ entry.protocols.v = <<>>
    /\ entry.via.v = <<>>
    /\ entry.posture.v = <<>>
    /\ entry.apps.v = <<>>

\* the entry describes grant k, which produces the pair
DescribesGrant(entry, pair, k) ==
    /\ pair \in GrantPairs(k)
    /\ DOMAIN entry = {"src", "dst", "rule_type", "rule_index", "protocols",
                       "via", "posture", "apps"}
    /\ entry.src = pair[1]
    /\ entry.dst = pair[2]
    /\ entry.rule_type = "Grant"
    /\ entry.rule_index = k
    /\ entry.protocols.v = FieldOf(grants[k], "ip")
    /\ entry.via.v = FieldOf(grants[k], "via")
    /\ entry.posture.v = FieldOf(grants[k], "srcPosture")
                         \o FieldOf(grants[k], "dstPosture")
    /\ entry.apps.v = AppNames(grants[k])

EdgeIndex ==
    get_search_metadata(node_metadata, edge_metadata).edges

\* C19: after build_graph on a fresh NetworkGraph, the edge index of
\* get_search_metadata has exactly one entry per distinct pair of the edge
\* list, keyed 'src->dst', and each entry describes one single rule that
\* produces the pair: its rule_type, 1-based rule_index and
\* protocols/via/posture/apps are those of that rule, and it holds an action
\* only when the rule is an ACL rule.
C19_EdgeIndex ==
    FirstBuildDone =>
        /\ DOMAIN EdgeIndex = {EdgeKey(e) : e \in BagToSet(edges)}
        /\ Cardinality(DOMAIN EdgeIndex) = Cardinality(BagToSet(edges))
        /\ \A e \in BagToSet(edges) :
              \/ \E k \in DOMAIN acls :
                    DescribesAcl(EdgeIndex[EdgeKey(e)], e, k)
              \/ \E k \in DOMAIN grants :
                    DescribesGrant(EdgeIndex[EdgeKey(e)], e, k)

\* a build has ended in which an ACL rule and a grant with via, postures and
\* an app both produce the pair (group, host): its entry is the grant's, and
\* the entry of another pair is an ACL rule's
C19_Witness ==
    /\ FirstBuildDone
    /\ \E k \in DOMAIN acls : <<IdGroup, IdHost>> \in AclPairs(k)
    /\ \E k \in DOMAIN grants :
          /\ <<IdGroup, IdHost>> \in GrantPairs(k)
          /\ "via" \in DOMAIN grants[k]
    /\ EdgeKey(<<IdGroup, IdHost>>) \in DOMAIN EdgeIndex
    /\ EdgeIndex[EdgeKey(<<IdGroup, IdHost>>)].rule_type = "Grant"
    /\ "action" \notin DOMAIN EdgeIndex[EdgeKey(<<IdGroup, IdHost>>)]
    /\ \E key \in DOMAIN EdgeIndex : EdgeIndex[key].rule_type = "ACL"

----------------------------------------------------------------------------
(* Claims on the phases of one build of a fresh NetworkGraph (specification *)
(* Spec)                                                                    *)

\* the rules are being processed: the ACL batch or the grant batch runs
RulesPhase ==
    pc \in {"acls", "grants"}

\* the step is the reconciliation pass of build_graph
ReconciliationStep ==
    pc = "grants" /\ pc' = "tooltips"

\* C21: the shape of a node follows Unseen -> dot (first touched by an ACL
\* rule) or triangle (first touched by a grant) -> hexagon.  While the rules
\* are processed no node is a hexagon; a shape changes only in the
\* reconciliation pass after all rules, only to hexagon, only for a node
\* whose base id is in the ACL-seen and in the grant-seen set, and a hexagon
\* never changes again; the published nodes are never withdrawn.
C21_ShapeStateMachine ==
    /\ [](RulesPhase =>
             \A n \in DOMAIN all_nodes : all_nodes[n][3] # "hexagon")
    /\ [][\A n \in DOMAIN all_nodes' :
             IF n \notin DOMAIN all_nodes
             THEN /\ RulesPhase
                  /\ all_nodes'[n][3] =
                        (IF pc = "acls" THEN "dot" ELSE "triangle")
             ELSE all_nodes'[n][3] # all_nodes[n][3] =>
                     /\ ReconciliationStep
                     /\ all_nodes[n][3] \in {"dot", "triangle"}
                     /\ all_nodes'[n][3] = "hexagon"
                     /\ BaseId(n) \in acl_nodes \cap grant_nodes]_vars
    /\ [][nodes \subseteq nodes']_vars

\* the reconciliation pass has run: a node first touched by an ACL rule and
\* an enhanced node first touched by a grant are hexagons, and a node only
\* grants have seen is still a triangle
C21_Witness ==
    /\ pc = "tooltips"
    /\ \E n \in DOMAIN all_nodes :
          n = BaseId(n) /\ n \in acl_nodes /\ all_nodes[n][3] = "hexagon"
    /\ \E n \in DOMAIN all_nodes :
          n # BaseId(n) /\ all_nodes[n][3] = "hexagon"
    /\ \E n \in DOMAIN all_nodes :
          n \notin acl_nodes /\ all_nodes[n][3] = "triangle"

\* the tooltip lists, in their order, all the references of the record
ListsReferences(tooltip, metadata) ==
    /\ metadata.src_rules # <<>> =>
          Contains(tooltip, <<"\n", "  - Source: ">>
                            \o Join(<<",", " ">>, metadata.src_rules))
    /\ metadata.dst_rules # <<>> =>
          Contains(tooltip, <<"\n", "  - Destination: ">>
                            \o Join(<<",", " ">>, metadata.dst_rules))

\* C22: the final tooltips are computed after all ACL rules and grants have
\* been processed, from the complete metadata.  The metadata does not change
\* once the rules are processed; the tooltip of a node changes only in the
\* tooltip pass, where every node gets a tooltip other than the one it was
\* created with; and the final tooltip of every node whose id is a key of the
\* search index lists every reference of its final src_rules and dst_rules.
C22_TooltipsFromCompleteMetadata ==
    /\ [](FirstBuildDone =>
             \A node \in nodes :
                 node[1] \in DOMAIN node_metadata =>
                     ListsReferences(node[3], node_metadata[node[1]]))
    /\ [][~RulesPhase => node_metadata' = node_metadata]_vars
    /\ [][\A n \in DOMAIN all_nodes \cap DOMAIN all_nodes' :
             all_nodes'[n][2] # all_nodes[n][2] => pc = "tooltips"]_vars
    /\ [][pc = "tooltips" =>
             \A n \in DOMAIN all_nodes : all_nodes'[n][2] # all_nodes[n][2]]_vars
    /\ [][pc = "add_nodes" =>
             nodes' = {<<n, all_nodes[n][1], all_nodes[n][2], all_nodes[n][3]>> :
                          n \in DOMAIN all_nodes}]_vars

\* a build has ended in which the host was created by the first ACL rule and
\* later named by a second ACL rule and by a grant: its final tooltip lists
\* the three references
C22_Witness ==
    /\ FirstBuildDone
    /\ Len(acls) = 2
    /\ Len(grants) >= 1
    /\ IdHost \in DOMAIN node_metadata
    /\ Len(node_metadata[IdHost].dst_rules) >= 3
    /\ \E node \in nodes :
          /\ node[1] = IdHost
          /\ Contains(node[3], <<"ACL rule ", "1">>)
          /\ Contains(node[3], <<"ACL rule ", "2">>)
          /\ Contains(node[3], <<"Grant rule ", "1">>)

\* what grant k adds to an accumulator of node n from its field: the value
\* once if the grant names n as source, and once more if it names n as
\* destination
Contribution(k, n, value) ==
    (IF n \in Range(Iter(grants[k].src)) THEN value ELSE <<>>)
    \o (IF n \in Range(Iter(grants[k].dst)) THEN value ELSE <<>>)

\* what grant k adds to the posture accumulator of node n: srcPosture for
\* the source role, dstPosture for the destination role
PostureContribution(k, n) ==
    (IF n \in Range(Iter(grants[k].src))
     THEN FieldOf(grants[k], "srcPosture") ELSE <<>>)
    \o (IF n \in Range(Iter(grants[k].dst))
        THEN FieldOf(grants[k], "dstPosture") ELSE <<>>)

RECURSIVE Accumulated(_, _, _)
\* the concatenation, in rule order, of what the first k grants add to the
\* accumulator `name` of node n
Accumulated(k, n, name) ==
    IF k = 0 THEN <<>>
    ELSE Accumulated(k - 1, n, name)
         \o (IF name = "protocols"
             THEN Contribution(k, n, FieldOf(grants[k], "ip"))
             ELSE IF name = "via"
             THEN Contribution(k, n, FieldOf(grants[k], "via"))
             ELSE IF name = "apps"
             THEN Contribution(k, n, AppNames(grants[k]))
             ELSE PostureContribution(k, n))

\* C23: each grant extends the protocols, via and apps accumulators of its
\* source nodes and of the base ids of its destinations by its ip, via and
\* normalized app lists, and the posture accumulator by srcPosture for a
\* source and by dstPosture for a destination.  Nothing is de-duplicated:
\* after the build each accumulator is the concatenation, in rule order, of
\* the contributions of the grants that reference the node, and ACL rules
\* contribute nothing.
C23_Accumulators ==
    FirstBuildDone =>
        \A n \in DOMAIN node_metadata :
            \A name \in {"protocols", "via", "posture", "apps"} :
                node_metadata[n][name] = Accumulated(Len(grants), n, name)

\* a build of two ACL rules and twice the grant with via, postures and an
\* app has ended: the tag, a source and a destination of the grant, holds
\* both postures twice; the host, a destination, holds dstPosture twice
C23_Witness ==
    /\ FirstBuildDone
    /\ Len(acls) = 2
    /\ Len(grants) = 2
    /\ IdTag \in DOMAIN node_metadata
    /\ node_metadata[IdTag].posture
          = << <<"posture:src">>, <<"posture:dst">>,
               <<"posture:src">>, <<"posture:dst">> >>
    /\ node_metadata[IdHost].posture
          = << <<"posture:dst">>, <<"posture:dst">> >>
    /\ Len(node_metadata[IdTag].apps) = 4
    /\ node_metadata[IdHostPort].apps = <<>>

----------------------------------------------------------------------------
(* build_graph on grants whose app field has each of its forms *)

MaxAppGrants == 2

IdCap == <<"c","a","p">>
IdCapTwo == <<"c","a","p","2">>

\* grants with an app that is a str, a list, a mapping, and without app
AppGrantRules ==
    { [src |-> JList(<<IdGroup>>), dst |-> JList(<<IdHost>>),
       app |-> JStr(IdCap)],
      [src |-> JList(<<IdGroup>>), dst |-> JList(<<IdTag>>),
       app |-> JList(<<IdCap, IdCapTwo>>)],
      [src |-> JList(<<IdTag>>), dst |-> JList(<<IdHost>>),
       app |-> JDict(<<IdCapTwo, IdCap>>)],
      [src |-> JList(<<IdTag>>), dst |-> JList(<<IdUser>>)] }

NextApps ==
    \/ \E a \in ListsUpTo(AclRules, MaxRebuildRules),
          g \in ListsUpTo(AppGrantRules, MaxAppGrants) :
          builds = 0 /\ build_graph(a, g)
    \/ process_acls_batch_rule
    \/ process_acls_batch_return
    \/ process_grants_batch_rule
    \/ mark_mixed_nodes
    \/ update_comprehensive_tooltips
    \/ add_all_nodes
    \/ extend_edges

SpecApps == Init /\ [][NextApps]_vars

\* the list of capability identifiers of an app field
Normalized(app) ==
    IF app.t = "dict" THEN app.v
    ELSE IF app.t = "list" THEN app.v
    ELSE <<app.v[1]>>

\* the normalized app of grant k, the empty list without an app
NormalizedApp(k) ==
    IF "app" \in DOMAIN grants[k] THEN Normalized(grants[k].app) ELSE <<>>

RECURSIVE AppsUpTo(_, _)
\* what the first k grants add to the apps of node n, one contribution for
\* each role
AppsUpTo(k, n) ==
    IF k = 0 THEN <<>>
    ELSE AppsUpTo(k - 1, n) \o Contribution(k, n, NormalizedApp(k))

\* the last grant that produces the pair
LastGrantOf(pair) ==
    CHOOSE k \in DOMAIN grants :
        /\ pair \in GrantPairs(k)
        /\ \A j \in DOMAIN grants : pair \in GrantPairs(j) => j <= k

\* C24: the app field of a grant is normalized to a list of capability
\* identifiers before it is stored in node or edge metadata: the keys of a
\* mapping, the elements of a list, the one-element list of a string, the
\* empty list when absent; the stored apps value is always a list.
C24_AppsNormalized ==
    /\ \A n \in DOMAIN node_metadata :
          \A k \in DOMAIN node_metadata[n].apps :
              node_metadata[n].apps[k] \in {IdCap, IdCapTwo}
    /\ \A e \in DOMAIN edge_metadata : edge_metadata[e].apps.t = "list"
    /\ FirstBuildDone =>
          /\ \A n \in DOMAIN node_metadata :
                node_metadata[n].apps = AppsUpTo(Len(grants), n)
          /\ \A e \in DOMAIN edge_metadata :
                edge_metadata[e].rule_type = "Grant" =>
                    edge_metadata[e].apps.v = NormalizedApp(LastGrantOf(e))

\* a build of a grant with a str app and a grant with a mapping app has
\* ended: the host holds the string as one element, then the keys
C24_Witness ==
    /\ FirstBuildDone
    /\ grants = <<[src |-> JList(<<IdGroup>>), dst |-> JList(<<IdHost>>),
                   app |-> JStr(IdCap)],
                  [src |-> JList(<<IdTag>>), dst |-> JList(<<IdHost>>),
                   app |-> JDict(<<IdCapTwo, IdCap>>)]>>
    /\ node_metadata[IdHost].apps = <<IdCap, IdCapTwo, IdCap>>
    /\ edge_metadata[<<IdGroup, IdHost>>].apps = JList(<<IdCap>>)
    /\ edge_metadata[<<IdTag, IdHost>>].apps = JList(<<IdCapTwo, IdCap>>)

----------------------------------------------------------------------------
(* build_graph with a reader: each rule runs as its three loops, and       *)
(* get_search_metadata may be called between any two of them.  The batches *)
(* hold no lock and take no snapshot, so a second thread, or a callback    *)
(* run from inside the build, reads the dicts as they are.                 *)

\* _process_acls_batch, lines 131-164: the rule's nodes are resolved and
\* the loop over src_nodes creates nodes and appends the rule reference
acls_src_loop ==
    /\ pc = "acls"
    /\ idx < Len(acls)
    /\ pc' = "acls_dst"
    /\ LET rule == acls[idx + 1]
           src_nodes == resolve_nodes(Iter(rule.src))
           dst_nodes == resolve_nodes(Iter(rule.dst))
       IN /\ acl_nodes' = acl_nodes \cup src_nodes \cup dst_nodes
          /\ all_nodes' =
                [n \in DOMAIN all_nodes \cup src_nodes |->
                    IF n \in DOMAIN all_nodes THEN all_nodes[n]
                    ELSE <<get_node_color(n), get_node_tooltip(n), "dot">>]
          /\ node_metadata' =
                AclMetadata(node_metadata, src_nodes, "src_rules", AclRef(idx))
    /\ UNCHANGED <<hosts, groups, rule_line_numbers, nodes, edges,
                   edge_metadata, acls, grants, idx, all_edges, grant_nodes,
                   builds, policy_data, error, rendered, fn_in, fn_out>>

\* _process_acls_batch, lines 166-191: the loop over dst_nodes
acls_dst_loop ==
    /\ pc = "acls_dst"
    /\ pc' = "acls_edges"
    /\ LET rule == acls[idx + 1]
           dst_nodes == resolve_nodes(Iter(rule.dst))
       IN /\ all_nodes' =
                [n \in DOMAIN all_nodes \cup dst_nodes |->
                    IF n \in DOMAIN all_nodes THEN all_nodes[n]
                    ELSE <<get_node_color(n), get_node_tooltip(n), "dot">>]
          /\ node_metadata' =
                AclMetadata(node_metadata, dst_nodes, "dst_rules", AclRef(idx))
    /\ UNCHANGED <<hosts, groups, rule_line_numbers, nodes, edges,
                   edge_metadata, acls, grants, idx, all_edges, acl_nodes,
                   grant_nodes, builds, policy_data, error, rendered, fn_in,
                   fn_out>>

\* _process_acls_batch, lines 193-209: the loop over the pairs
acls_edges_loop ==
    /\ pc = "acls_edges"
    /\ pc' = "acls"
    /\ idx' = idx + 1
    /\ LET rule == acls[idx + 1]
           src_nodes == resolve_nodes(Iter(rule.src))
           dst_nodes == resolve_nodes(Iter(rule.dst))
       IN /\ edge_metadata' =
                [e \in DOMAIN edge_metadata \cup (src_nodes \X dst_nodes) |->
                    IF e \in src_nodes \X dst_nodes
                    THEN AclEdgeMetadata(e[1], e[2], idx, rule)
                    ELSE edge_metadata[e]]
          /\ all_edges' = all_edges \cup (src_nodes \X dst_nodes)
    /\ UNCHANGED <<hosts, groups, rule_line_numbers, nodes, edges,
                   node_metadata, acls, grants, all_nodes, acl_nodes,
                   grant_nodes, builds, policy_data, error, rendered, fn_in,
                   fn_out>>

\* _process_grants_batch, lines 230-298: the rule's nodes are resolved and
\* the loop over src_nodes creates nodes and appends to the accumulators
grants_src_loop ==
    /\ pc = "grants"
    /\ idx < Len(grants)
    /\ pc' = "grants_dst"
    /\ LET grant == grants[idx + 1]
           src_nodes == resolve_nodes(Iter(grant.src))
           dst_nodes == resolve_grant_destinations(grant)
           base_dst_nodes == {BaseNode(dst) : dst \in dst_nodes}
       IN /\ grant_nodes' = grant_nodes \cup src_nodes \cup base_dst_nodes
          /\ \E order \in Orders(node_metadata) :
                all_nodes' =
                    [n \in DOMAIN all_nodes \cup src_nodes |->
                        IF n \in DOMAIN all_nodes THEN all_nodes[n]
                        ELSE <<get_node_color(n),
                               get_grant_src_tooltip(n, grant, node_metadata,
                                                     order),
                               "triangle">>]
          /\ node_metadata' =
                GrantMetadata(node_metadata, src_nodes, "src_rules",
                              GrantRef(idx), grant, "srcPosture")
    /\ UNCHANGED <<hosts, groups, rule_line_numbers, nodes, edges,
                   edge_metadata, acls, grants, idx, all_edges, acl_nodes,
                   builds, policy_data, error, rendered, fn_in, fn_out>>

\* _process_grants_batch, lines 300-333: the loop over dst_nodes
grants_dst_loop ==
    /\ pc = "grants_dst"
    /\ pc' = "grants_edges"
    /\ LET grant == grants[idx + 1]
           dst_nodes == resolve_grant_destinations(grant)
           base_dst_nodes == {BaseNode(dst) : dst \in dst_nodes}
       IN /\ \E order \in Orders(node_metadata) :
                all_nodes' =
                    [n \in DOMAIN all_nodes \cup dst_nodes |->
                        IF n \in DOMAIN all_nodes THEN all_nodes[n]
                        ELSE <<get_node_color(n),
                               get_grant_dst_tooltip(n, grant, node_metadata,
                                                     order),
                               "triangle">>]
          /\ node_metadata' =
                GrantMetadata(node_metadata, base_dst_nodes, "dst_rules",
                              GrantRef(idx), grant, "dstPosture")
    /\ UNCHANGED <<hosts, groups, rule_line_numbers, nodes, edges,
                   edge_metadata, acls, grants, idx, all_edges, acl_nodes,
                   grant_nodes, builds, policy_data, error, rendered, fn_in,
                   fn_out>>

\* _process_grants_batch, lines 335-350: the loop over the pairs
grants_edges_loop ==
    /\ pc = "grants_edges"
    /\ pc' = "grants"
    /\ idx' = idx + 1
    /\ LET grant == grants[idx + 1]
           src_nodes == resolve_nodes(Iter(grant.src))
           dst_nodes == resolve_grant_destinations(grant)
       IN /\ edge_metadata' =
                [e \in DOMAIN edge_metadata \cup (src_nodes \X dst_nodes) |->
                    IF e \in src_nodes \X dst_nodes
                    THEN GrantEdgeMetadata(e[1], e[2], idx, grant)
                    ELSE edge_metadata[e]]
          /\ all_edges' = all_edges \cup (src_nodes \X dst_nodes)
    /\ UNCHANGED <<hosts, groups, rule_line_numbers, nodes, edges,
                   node_metadata, acls, grants, all_nodes, acl_nodes,
                   grant_nodes, builds, policy_data, error, rendered, fn_in,
                   fn_out>>

\* get_search_metadata called by a reader while build_graph runs; fn_out
\* keeps what the call returned
read_search_metadata ==
    /\ pc # Idle
    /\ fn_out' = [fn |-> "get_search_metadata",
                  value |-> get_search_metadata(node_metadata, edge_metadata)]
    /\ UNCHANGED <<hosts, groups, rule_line_numbers, nodes, edges,
                   node_metadata, edge_metadata, pc, acls, grants, idx,
                   all_nodes, all_edges, acl_nodes, grant_nodes, builds,
                   policy_data, error, rendered, fn_in>>

\* one build_graph call on the fresh instance, and a reader
NextReader ==
    \/ \E a \in ListsUpTo(AclRules, MaxRebuildRules),
          g \in ListsUpTo(GrantRules, MaxRebuildRules) :
          builds = 0 /\ build_graph(a, g)
    \/ acls_src_loop
    \/ acls_dst_loop
    \/ acls_edges_loop
    \/ process_acls_batch_return
    \/ grants_src_loop
    \/ grants_dst_loop
    \/ grants_edges_loop
    \/ mark_mixed_nodes
    \/ update_comprehensive_tooltips
    \/ add_all_nodes
    \/ extend_edges
    \/ read_search_metadata

SpecReader == Init /\ [][NextReader]_vars

\* the reader has a result
Observed == fn_out.fn = "get_search_metadata"

\* the index observed holds reference ref for node n in the list role
SeesReference(n, role, ref) ==
    /\ n \in DOMAIN fn_out.value.nodes
    /\ \E p \in DOMAIN fn_out.value.nodes[n][role] :
          fn_out.value.nodes[n][role][p] = ref

\* the index observed has an entry for the pair
SeesEdge(pair) == EdgeKey(pair) \in DOMAIN fn_out.value.edges

\* all, or none, of what a rule writes is in the index observed: its
\* reference at the source nodes src, at the destination nodes dst whose
\* metadata lives under base, and the entries of the pairs
AllOrNothing(src, dst, base, ref) ==
    LET none == /\ \A n \in src : ~SeesReference(n, "src_rules", ref)
                /\ \A n \in base : ~SeesReference(n, "dst_rules", ref)
        all  == /\ \A n \in src : SeesReference(n, "src_rules", ref)
                /\ \A n \in base : SeesReference(n, "dst_rules", ref)
                /\ \A pair \in src \X dst : SeesEdge(pair)
    IN none \/ all

\* C25: whenever get_search_metadata is called while build_graph runs, the
\* index it returns holds, for every ACL rule and every grant of the
\* document, either all of the rule's references and edge entries or none
\* of its references
C25_AtomicPerRule ==
    Observed =>
        /\ \A k \in 1..Len(acls) :
              LET src == resolve_nodes(Iter(acls[k].src))
                  dst == resolve_nodes(Iter(acls[k].dst))
              IN AllOrNothing(src, dst, dst, AclRef(k - 1))
        /\ \A k \in 1..Len(grants) :
              LET src == resolve_nodes(Iter(grants[k].src))
                  dst == resolve_grant_destinations(grants[k])
              IN AllOrNothing(src, dst, {BaseNode(n) : n \in dst},
                              GrantRef(k - 1))

----------------------------------------------------------------------------
(* Claims on what one build publishes *)

\* both endpoints of every pair of the bag are ids of self.nodes
EndpointsAreNodes(edge_bag) ==
    \A e \in BagToSet(edge_bag) : e[1] \in NodeIds /\ e[2] \in NodeIds

\* C26: at every point of one build_graph call on a fresh instance, both
\* endpoints of every edge of self.edges are ids of nodes of self.nodes,
\* and a step that publishes edges finds their endpoints published already
C26_EdgeEndpointsAreNodes ==
    /\ [](EndpointsAreNodes(edges))
    /\ [][edges' # edges => EndpointsAreNodes(edges')]_vars

\* a build has returned with an edge to an enhanced destination and an
\* edge of an ACL rule
C26_Witness ==
    /\ pc = Idle
    /\ builds = 1
    /\ <<IdGroup, IdHost \o <<" ","[">> \o Tcp443 \o <<"]">> >>
           \in BagToSet(edges)
    /\ <<IdTag, IdHostPort>> \in BagToSet(edges)

\* C27: after build_graph, every key of the 'nodes' map that
\* get_search_metadata returns is the id of a node of self.nodes
C27_IndexKeysAreNodes ==
    FirstBuildDone =>
        DOMAIN get_search_metadata(node_metadata, edge_metadata).nodes
            \subseteq NodeIds

\* the last ACL rule producing the pair
LastAclOf(pair) ==
    CHOOSE k \in DOMAIN acls :
        /\ pair \in AclPairs(k)
        /\ \A j \in DOMAIN acls : pair \in AclPairs(j) => j <= k

\* the entry of the pair is, field for field, the entry of the last rule
\* that produces it: the last grant if a grant produces it, else the last
\* ACL rule
LastWriter(pair) ==
    IF \E k \in DOMAIN grants : pair \in GrantPairs(k)
    THEN DescribesGrant(edge_metadata[pair], pair, LastGrantOf(pair))
    ELSE DescribesAcl(edge_metadata[pair], pair, LastAclOf(pair))

\* C28: the edge-metadata entry of a pair is entirely the entry of the last
\* rule producing it in processing order (ACL rules, then grants, each in
\* document order): a step of a batch overwrites the entries of its rule's
\* pairs as a whole and leaves the other entries alone, so after the build a
\* grant's entry has replaced an ACL rule's entry for the same pair
C28_LastWriterWins ==
    /\ [](FirstBuildDone => \A pair \in DOMAIN edge_metadata : LastWriter(pair))
    /\ [][(pc = "acls" /\ idx' = idx + 1) =>
             \A pair \in DOMAIN edge_metadata' :
                 IF pair \in AclPairs(idx')
                 THEN DescribesAcl(edge_metadata'[pair], pair, idx')
                 ELSE /\ pair \in DOMAIN edge_metadata
                      /\ edge_metadata'[pair] = edge_metadata[pair]]_vars
    /\ [][(pc = "grants" /\ idx' = idx + 1) =>
             \A pair \in DOMAIN edge_metadata' :
                 IF pair \in GrantPairs(idx')
                 THEN DescribesGrant(edge_metadata'[pair], pair, idx')
                 ELSE /\ pair \in DOMAIN edge_metadata
                      /\ edge_metadata'[pair] = edge_metadata[pair]]_vars

\* a build has ended in which two ACL rules and then two grants produced
\* one pair, whose entry is the entry of the second grant
C28_Witness ==
    /\ FirstBuildDone
    /\ Len(acls) = 2
    /\ Len(grants) = 2
    /\ \E pair \in DOMAIN edge_metadata :
          /\ \A k \in DOMAIN acls : pair \in AclPairs(k)
          /\ \A k \in DOMAIN grants : pair \in GrantPairs(k)
          /\ grants[1] # grants[2]
          /\ edge_metadata[pair].rule_type = "Grant"
          /\ edge_metadata[pair].rule_index = 2
          /\ edge_metadata[pair].protocols = GetRaw(grants[2], "ip")

----------------------------------------------------------------------------
(* Claim on the two validation paths of one document *)

\* the groups of the document are lists and its hosts are strings
WellTypedTables ==
    /\ \A n \in DOMAIN DocGet(policy_data, "groups", EmptyDict) :
          policy_data.groups[n].t = "list"
    /\ \A n \in DOMAIN DocGet(policy_data, "hosts", EmptyDict) :
          policy_data.hosts[n].t = "str"

\* C29: on a document whose groups and hosts are well-typed, once
\* parse_policy has run and PolicyValidator.validate_policy_structure has
\* been called, the validator has raised if and only if
\* PolicyParser._validate_policy_structure has raised
C29_ValidationPathsAgree ==
    (Validated /\ pc # "parse_policy" /\ WellTypedTables) =>
        (fn_out.value # NoError <=> error # NoError)

\* the shape the search script expects of a node of the rule_type
ShapeOfRuleType(rule_type) ==
    CASE rule_type = "Mixed" -> "hexagon"
      [] rule_type = "ACL" -> "dot"
      [] rule_type = "Grant" -> "triangle"
      [] OTHER -> "none"

\* C30: after build_graph on a fresh NetworkGraph, every node of self.nodes
\* whose id is a key of the node index is a hexagon exactly when its
\* rule_type is 'Mixed', a dot exactly when it is 'ACL' and a triangle
\* exactly when it is 'Grant'
C30_ShapeAgreesWithRuleType ==
    FirstBuildDone =>
        \A n \in nodes :
            n[1] \in DOMAIN get_search_metadata(node_metadata,
                                                edge_metadata).nodes =>
                /\ node_metadata[n[1]].rule_type \in {"Mixed", "ACL", "Grant"}
                /\ n[4] = ShapeOfRuleType(node_metadata[n[1]].rule_type)

\* a build has ended with a hexagon, a dot and a triangle among the nodes
\* that the index holds
C30_Witness ==
    /\ FirstBuildDone
    /\ \A shape \in {"hexagon", "dot", "triangle"} :
          \E n \in nodes : n[1] \in DOMAIN node_metadata /\ n[4] = shape

====
